---- MODULE Spec2Model ----
(***************************************************************************)
(* Capitalisman: technical indicators, the weighted-voting signal          *)
(* combiner, the walk-forward backtest engine and its metrics stage.       *)
(*                                                                         *)
(* Numbers.  The program computes in IEEE doubles.  The model computes in  *)
(* exact rationals <<n, d>> (d > 0, lowest terms) extended with the three  *)
(* special values a double division can produce: NaN = <<0,0>>,            *)
(* +inf = <<1,0>>, -inf = <<-1,0>>.  Comparisons with NaN are false, as in *)
(* Python.  Rounding error of doubles is not modelled.                     *)
(*                                                                         *)
(* Frames.  A pandas DataFrame is a function from column names to          *)
(* sequences of numbers of one common length; the row index (timestamps)   *)
(* is the column "Date".  Positions are Python positions: 0-based, and a   *)
(* negative position counts from the end (iloc).                           *)
(***************************************************************************)
EXTENDS Integers, Sequences, FiniteSets, TLC

(***************************************************************************)
(* config/settings.py                                                      *)
(***************************************************************************)
WARMUP_BUFFER == 50
SMA_SHORT == 20
SMA_LONG == 50
EMA_SHORT == 12
EMA_LONG == 26
MACD_FAST == 12
MACD_SLOW == 26
MACD_SIGNAL == 9
ADX_PERIOD == 14
RSI_PERIOD == 14
RSI_OVERSOLD == 30
RSI_OVERBOUGHT == 70
STOCH_K == 14
STOCH_D == 3
STOCH_SMOOTH == 3
STOCH_OVERSOLD == 20
STOCH_OVERBOUGHT == 80
BB_PERIOD == 20
BB_STD == 2

(***************************************************************************)
(* Evaluation.  An operator's argument is evaluated wherever the operator  *)
(* reads it; Let1(F, x) is F(v) with v the value of x, so that x is        *)
(* evaluated once however often F reads it (LET v == x IN F(v), strictly). *)
(***************************************************************************)
Let1(F(_), x) == CHOOSE r \in {F(v) : v \in {x}} : TRUE

Let2(F(_, _), x, y) == CHOOSE r \in {F(v, w) : v \in {x}, w \in {y}} : TRUE

\* a loop: acc after Step(acc, i) for i = lo, lo + 1, ..., hi in this order
\* (the range is halved, so that the evaluation nests to a depth of log n)
RECURSIVE FoldRange(_, _, _, _)
FoldRange(Step(_, _), acc, lo, hi) ==
    IF lo > hi THEN acc
    ELSE IF lo = hi THEN Step(acc, lo)
    ELSE Let1(LAMBDA a : FoldRange(Step, a, (lo + hi) \div 2 + 1, hi),
              FoldRange(Step, acc, lo, (lo + hi) \div 2))

(***************************************************************************)
(* Numbers: exact rationals with NaN and the infinities.                   *)
(***************************************************************************)
Abs(x) == IF x < 0 THEN -x ELSE x

Sign(x) == IF x < 0 THEN -1 ELSE IF x > 0 THEN 1 ELSE 0

RECURSIVE Gcd(_, _)
\* (the pair of the next call is a value, read through p)
Gcd(a, b) ==
    IF b = 0 THEN a
    ELSE [p \in {<<b, a % b>>} |-> Gcd(p[1], p[2])][<<b, a % b>>]

\* the number n/d in canonical form; x/0 is +-inf and 0/0 is NaN
Norm(n0, d0) ==
    Let2(LAMBDA n, d :
        IF d = 0 THEN <<Sign(n), 0>>
        ELSE Let1(LAMBDA g : <<(Sign(d) * n) \div g, Abs(d) \div g>>,
                  Gcd(Abs(n), Abs(d))),
        n0, d0)

NaN == <<0, 0>>

Inf == <<1, 0>>

R(k) == <<k, 1>>

IsNa(a) == a = NaN

IsFinite(a) == a[2] # 0

\* a < b, by cross-multiplication over the least common denominator
Lt(a0, b0) ==
    Let2(LAMBDA a, b :
        IF IsNa(a) \/ IsNa(b) THEN FALSE
        ELSE IF a[2] = 0 /\ b[2] = 0 THEN a[1] < b[1]
        ELSE IF a[2] = 0 THEN a[1] < 0
        ELSE IF b[2] = 0 THEN b[1] > 0
        ELSE Let1(LAMBDA g : a[1] * (b[2] \div g) < b[1] * (a[2] \div g),
                  Gcd(a[2], b[2])),
        a0, b0)

Gt(a, b) == Lt(b, a)

Eq(a0, b0) == Let2(LAMBDA a, b : ~IsNa(a) /\ ~IsNa(b) /\ a = b, a0, b0)

Le(a0, b0) == Let2(LAMBDA a, b : Lt(a, b) \/ Eq(a, b), a0, b0)

Ge(a, b) == Le(b, a)

Neg(a0) == Let1(LAMBDA a : <<-a[1], a[2]>>, a0)

Add(a0, b0) ==
    Let2(LAMBDA a, b :
        IF IsNa(a) \/ IsNa(b) THEN NaN
        ELSE IF a[2] = 0 /\ b[2] = 0 THEN (IF a[1] = b[1] THEN a ELSE NaN)
        ELSE IF a[2] = 0 THEN a
        ELSE IF b[2] = 0 THEN b
        ELSE Let1(LAMBDA g :
                      Norm(a[1] * (b[2] \div g) + b[1] * (a[2] \div g),
                           (a[2] \div g) * b[2]),
                  Gcd(a[2], b[2])),
        a0, b0)

Sub(a0, b0) == Let2(LAMBDA a, b : Add(a, Neg(b)), a0, b0)

Mul(a0, b0) ==
    Let2(LAMBDA a, b :
        IF IsNa(a) \/ IsNa(b) THEN NaN
        ELSE IF a[2] = 0 \/ b[2] = 0 THEN <<Sign(a[1]) * Sign(b[1]), 0>>
        ELSE Let2(LAMBDA g1, g2 :
                      Norm((a[1] \div g1) * (b[1] \div g2),
                           (a[2] \div g2) * (b[2] \div g1)),
                  Gcd(Abs(a[1]), b[2]), Gcd(Abs(b[1]), a[2])),
        a0, b0)

\* 1/b, with 1/0 = +inf and 1/inf = 0
Recip(b0) ==
    Let1(LAMBDA b :
        IF IsNa(b) THEN NaN
        ELSE IF b[2] = 0 THEN R(0)
        ELSE IF b[1] = 0 THEN Inf
        ELSE <<Sign(b[1]) * b[2], Abs(b[1])>>,
        b0)

\* numpy double division: x/0 is +-inf, 0/0 is NaN, nothing is raised
Div(a0, b0) ==
    Let2(LAMBDA a, b :
        IF IsNa(a) \/ IsNa(b) THEN NaN
        ELSE IF a[2] = 0 /\ b[2] = 0 THEN NaN
        ELSE Mul(a, Recip(b)),
        a0, b0)

RAbs(a0) == Let1(LAMBDA a : <<Abs(a[1]), a[2]>>, a0)

\* Python's min(a, b) and max(a, b): b replaces a only when it compares
\* smaller (larger), so a NaN second argument is dropped and a NaN first
\* argument is kept.
PyMin(a0, b0) == Let2(LAMBDA a, b : IF Lt(b, a) THEN b ELSE a, a0, b0)

PyMax(a0, b0) == Let2(LAMBDA a, b : IF Gt(b, a) THEN b ELSE a, a0, b0)

(***************************************************************************)
(* Sequences and frames.                                                   *)
(***************************************************************************)
\* the 0-based position that Python position i denotes in a sequence of
\* length n (negative positions count from the end)
PyPos(n, i) == IF i < 0 THEN n + i ELSE i

InRange(n, i) == PyPos(n, i) >= 0 /\ PyPos(n, i) < n

\* series.iloc[i], for i in range
iloc(s, i) == s[PyPos(Len(s), i) + 1]

\* series.iloc[i:]: the rows from position i (clipped) to the end
ilocFrom(s, i) ==
    LET n == Len(s)
        p == IF PyPos(n, i) < 0 THEN 0 ELSE PyPos(n, i)
    IN  IF p >= n THEN <<>> ELSE SubSeq(s, p + 1, n)

FrameLen(df) == Len(df["Close"])

HasColumn(df, c) == c \in DOMAIN df

\* df[c] = s on a frame: the column is added or replaced
SetColumn(df, c, s) ==
    Let2(LAMBDA f, col : [k \in (DOMAIN f) \cup {c} |-> IF k = c THEN col ELSE f[k]],
         df, s)

\* the first k rows of a frame: df.iloc[:k]
Prefix(df, k) == [c \in DOMAIN df |-> SubSeq(df[c], 1, k)]

\* the largest and the smallest value of a non-empty NaN-free series
SeqMax(s) ==
    Let1(LAMBDA v : FoldRange(LAMBDA m, i : IF Lt(m, v[i]) THEN v[i] ELSE m,
                              v[1], 2, Len(v)),
         s)

SeqMin(s) ==
    Let1(LAMBDA v : FoldRange(LAMBDA m, i : IF Gt(m, v[i]) THEN v[i] ELSE m,
                              v[1], 2, Len(v)),
         s)

(***************************************************************************)
(* signals/base.py                                                         *)
(***************************************************************************)
Directions == {"BUY", "SELL", "HOLD"}

\* a faulty variant of the constructor: the confidence is kept as supplied
SignalResult_Unclamped(name, direction, confidence, detail) ==
    [indicator_name |-> name,
     direction      |-> direction,
     confidence     |-> confidence,
     detail         |-> detail]

\* SignalResult(...) with __post_init__: the confidence is clamped to [0, 1]
SignalResult(name, direction, confidence, detail) ==
    [indicator_name |-> name,
     direction      |-> direction,
     confidence     |-> PyMax(R(0), PyMin(R(1), confidence)),
     detail         |-> detail]

\* the outcome of a call that raised (an iloc position out of range)
Raised(name) ==
    [indicator_name |-> name,
     direction      |-> "RAISED",
     confidence     |-> NaN,
     detail         |-> "IndexError"]

IsRaised(sig) == sig.direction = "RAISED"

\* a faulty variant of the previous position: before the default index
\* comes the first bar
PrevIdx_FirstBar(idx) == IF idx # -1 THEN idx - 1 ELSE 0

\* prev_idx = idx - 1 if idx != -1 else -2
PrevIdx(idx) == IF idx # -1 THEN idx - 1 ELSE -2

(***************************************************************************)
(* pandas and ta kernels the indicators call.  ta (the technical-analysis  *)
(* library) is not part of the repository; its functions are modelled by   *)
(* what they compute with fillna=False: a window of w bars is undefined    *)
(* (NaN) until it holds w observations.  The numeric inputs are NaN-free   *)
(* except for leading NaN rows.                                            *)
(***************************************************************************)
\* the sum of a series
SumSeq(s) ==
    Let1(LAMBDA v : FoldRange(LAMBDA acc, i : Add(acc, v[i]), R(0), 1, Len(v)),
         s)

\* the defined values of a sequence (pandas reductions skip NaN)
DropNa(s) == SelectSeq(s, LAMBDA x : ~IsNa(x))

\* Series.max() and Series.min(): NaN rows are skipped; NaN when none is left
SeriesMax(s) ==
    Let1(LAMBDA d : IF d = <<>> THEN NaN ELSE SeqMax(d), DropNa(s))

SeriesMin(s) ==
    Let1(LAMBDA d : IF d = <<>> THEN NaN ELSE SeqMin(d), DropNa(s))

\* the window of w rows ending at row i (1-based), for i >= w
Window(s, i, w) == SubSeq(s, i - w + 1, i)

\* Series.rolling(window=w).mean(), min_periods = w
RollingMean(s, w) ==
    Let1(LAMBDA v : [i \in 1..Len(v) |->
                        IF i < w THEN NaN
                        ELSE Div(SumSeq(Window(v, i, w)), R(w))],
         s)

\* Series.rolling(w, min_periods=w).max() and .min()
RollingMax(s, w) ==
    Let1(LAMBDA v : [i \in 1..Len(v) |->
                        IF i < w \/ DropNa(Window(v, i, w)) # Window(v, i, w)
                        THEN NaN ELSE SeqMax(Window(v, i, w))],
         s)

RollingMin(s, w) ==
    Let1(LAMBDA v : [i \in 1..Len(v) |->
                        IF i < w \/ DropNa(Window(v, i, w)) # Window(v, i, w)
                        THEN NaN ELSE SeqMin(Window(v, i, w))],
         s)

\* the integer square root, rounded down
ISqrt(n) == CHOOSE k \in 0..n : k * k <= n /\ (k + 1) * (k + 1) > n

\* the square root of a rational q >= 0, rounded down to a multiple of
\* 1/100 (the float result is rounded too, to 53 bits)
RSqrt(q) ==
    IF IsNa(q) THEN NaN
    ELSE IF ~IsFinite(q) THEN q
    ELSE Norm(ISqrt((q[1] * 10000) \div q[2]), 100)

\* Series.rolling(w, min_periods=w).std(ddof=0): the population standard
\* deviation of the window
\* the population variance of a window of w values
Variance(win, w) ==
    Let1(LAMBDA mean :
             Div(SumSeq([k \in 1..w |->
                     Mul(Sub(win[k], mean), Sub(win[k], mean))]), R(w)),
         Div(SumSeq(win), R(w)))

RollingStd(s, w) ==
    Let1(LAMBDA v : [i \in 1..Len(v) |->
                        IF i < w THEN NaN
                        ELSE RSqrt(Variance(Window(v, i, w), w))],
         s)

\* Series.cumsum(): row i holds the running sum of the rows up to i
CumSum(s) ==
    Let1(LAMBDA v :
             FoldRange(LAMBDA out, i :
                           Append(out, Add(IF i = 1 THEN R(0) ELSE out[i - 1],
                                           v[i])),
                       <<>>, 1, Len(v)),
         s)

\* Series.shift(1): row i holds the value of row i - 1, the first row NaN
Shift1(s) ==
    Let1(LAMBDA v : [i \in 1..Len(v) |-> IF i = 1 THEN NaN ELSE v[i - 1]], s)

\* element-wise arithmetic of two series of one length
SeqAdd(a, b) == Let2(LAMBDA x, y : [i \in 1..Len(x) |-> Add(x[i], y[i])], a, b)

SeqSub(a, b) == Let2(LAMBDA x, y : [i \in 1..Len(x) |-> Sub(x[i], y[i])], a, b)

SeqMul(a, b) == Let2(LAMBDA x, y : [i \in 1..Len(x) |-> Mul(x[i], y[i])], a, b)

SeqDiv(a, b) == Let2(LAMBDA x, y : [i \in 1..Len(x) |-> Div(x[i], y[i])], a, b)

SeqScale(a, k) == Let1(LAMBDA x : [i \in 1..Len(x) |-> Mul(x[i], k)], a)

\* a column of n NaN values: df[c] = float("nan")
NaNColumn(n) == [i \in 1..n |-> NaN]

\* Series.ewm(alpha, min_periods, adjust=False).mean(): y = x at the first
\* defined row, then y' = (1 - alpha) y + alpha x; the result is NaN until
\* minp defined rows have been seen
EwmStep(st, x, alpha, minp) ==
    Let2(LAMBDA y2, c2 :
             [y |-> y2, cnt |-> c2,
              out |-> Append(st.out, IF c2 >= minp THEN y2 ELSE NaN)],
         IF IsNa(x) THEN st.y
         ELSE IF IsNa(st.y) THEN x
         ELSE Add(Mul(Sub(R(1), alpha), st.y), Mul(alpha, x)),
         IF IsNa(x) THEN st.cnt ELSE st.cnt + 1)

Ewm(s, alpha, minp) ==
    Let1(LAMBDA v :
             FoldRange(LAMBDA st, i : EwmStep(st, v[i], alpha, minp),
                       [y |-> NaN, cnt |-> 0, out |-> <<>>], 1, Len(v)).out,
         s)

\* ta.trend.sma_indicator(close, window)
ta_sma_indicator(close, window) == RollingMean(close, window)

\* ta.trend.ema_indicator(close, window): span = window, min_periods = window
ta_ema_indicator(close, window) == Ewm(close, Norm(2, window + 1), window)

\* ta.momentum.rsi(close, window)
ta_rsi(close, window) ==
    Let1(LAMBDA diff :
        Let2(LAMBDA emaup, emadn :
                [i \in 1..Len(diff) |->
                    IF Eq(emadn[i], R(0)) THEN R(100)
                    ELSE Sub(R(100),
                             Div(R(100), Add(R(1), Div(emaup[i], emadn[i]))))],
             Ewm([i \in 1..Len(diff) |->
                     IF Gt(diff[i], R(0)) THEN diff[i] ELSE R(0)],
                 Norm(1, window), window),
             Ewm([i \in 1..Len(diff) |->
                     IF Lt(diff[i], R(0)) THEN Neg(diff[i]) ELSE R(0)],
                 Norm(1, window), window)),
        SeqSub(close, Shift1(close)))

\* ta.volume.on_balance_volume(close, volume): the running sum of the
\* volume, negated on the bars that close below the previous close
ta_on_balance_volume(close, volume) ==
    Let1(LAMBDA prev :
             CumSum([i \in 1..Len(prev) |->
                 IF Lt(close[i], prev[i]) THEN Neg(volume[i]) ELSE volume[i]]),
         Shift1(close))

\* ta.trend.MACD(close, window_slow, window_fast, window_sign): the three
\* series macd(), macd_signal() and macd_diff()
ta_MACD(close, window_slow, window_fast, window_sign) ==
    Let1(LAMBDA line :
        Let1(LAMBDA sig :
                 [macd |-> line, macd_signal |-> sig,
                  macd_diff |-> SeqSub(line, sig)],
             ta_ema_indicator(line, window_sign)),
        SeqSub(ta_ema_indicator(close, window_fast),
               ta_ema_indicator(close, window_slow)))

\* ta.momentum.StochasticOscillator(high, low, close, window, smooth_window):
\* the two series stoch() and stoch_signal()
ta_StochasticOscillator(high, low, close, window, smooth_window) ==
    Let2(LAMBDA smin, smax :
        Let1(LAMBDA k : [stoch |-> k,
                         stoch_signal |-> RollingMean(k, smooth_window)],
             SeqDiv(SeqScale(SeqSub(close, smin), R(100)), SeqSub(smax, smin))),
        RollingMin(low, window), RollingMax(high, window))

\* ta.volatility.BollingerBands(close, window, window_dev): the four series
\* bollinger_hband(), bollinger_mavg(), bollinger_lband(), bollinger_pband()
ta_BollingerBands(close, window, window_dev) ==
    Let2(LAMBDA mavg, mstd :
        Let2(LAMBDA hband, lband :
                 [hband |-> hband, mavg |-> mavg, lband |-> lband,
                  pband |-> SeqDiv(SeqSub(close, lband), SeqSub(hband, lband))],
             SeqAdd(mavg, SeqScale(mstd, R(window_dev))),
             SeqSub(mavg, SeqScale(mstd, R(window_dev)))),
        RollingMean(close, window), RollingStd(close, window))

\* Wilder's running sum as ta.trend.ADXIndicator builds it: an array of
\* len(x) - (w - 1) cells; cell 0 is the sum of the first w defined values,
\* cell k the previous cell less its w-th part plus x at bar w + k, and the
\* last cell is left at its initial 0
WilderSums(x, w) ==
    Let2(LAMBDA v, d :
        LET m == Len(v) - (w - 1)
        IN  FoldRange(LAMBDA out, k :
                          Append(out,
                              IF k = m - 1 THEN R(0)
                              ELSE Add(Sub(out[k], Div(out[k], R(w))),
                                       v[w + k + 1])),
                      <<SumSeq(SubSeq(d, 1, IF Len(d) < w THEN Len(d) ELSE w))>>,
                      1, m - 1),
        x, DropNa(x))

\* the smoothing of the directional index into the ADX array: cell w is
\* the mean of the first w values of dx, each later cell i is
\* (previous * (w - 1) + dx[i - 1]) / w; the cells from w on, of m in all
AdxSmooth(dx, w, m) ==
    FoldRange(LAMBDA out, i :
                  Append(out, Div(Add(Mul(out[Len(out)], R(w - 1)), dx[i]),
                                  R(w))),
              <<Div(SumSeq(SubSeq(dx, 1, w)), R(w))>>, w + 1, m - 1)

\* ta.trend.ADXIndicator(high, low, close, window): the three series adx(),
\* adx_pos() and adx_neg(); the warm-up rows are 0, not NaN.  Needs
\* len(close) >= 2 * window.
ta_ADXIndicator(high, low, close, window) ==
    LET n  == Len(close)
        w  == window
        \* the directional series, from the smoothed sums
        Out(trs, dips, dins) ==
            LET m   == Len(trs)
                dip == [k \in 1..m |-> Mul(R(100), Div(dips[k], trs[k]))]
                din == [k \in 1..m |-> Mul(R(100), Div(dins[k], trs[k]))]
            IN  Let2(LAMBDA dx, di :
                    Let1(LAMBDA tailv :
                        [adx     |-> [i \in 1..n |->
                                         IF i <= (w - 1) + w THEN R(0)
                                         ELSE tailv[i - (w - 1) - w]],
                         adx_pos |-> [i \in 1..n |->
                                         IF i - 1 - w >= 1 /\ i - 1 - w <= m - 2
                                         THEN di[1][i - w] ELSE R(0)],
                         adx_neg |-> [i \in 1..n |->
                                         IF i - 1 - w >= 1 /\ i - 1 - w <= m - 2
                                         THEN di[2][i - w] ELSE R(0)]],
                        AdxSmooth(dx, w, m)),
                    [k \in 1..m |->
                        Mul(R(100), RAbs(Div(Sub(dip[k], din[k]),
                                             Add(dip[k], din[k]))))],
                    <<dip, din>>)
    IN  Let2(LAMBDA cs, ud :
            Let2(LAMBDA trs, ds : Out(trs, ds[1], ds[2]),
                 WilderSums([i \in 1..n |->
                     IF IsNa(cs[i]) THEN NaN
                     ELSE Sub(IF Gt(cs[i], high[i]) THEN cs[i] ELSE high[i],
                              IF Lt(cs[i], low[i]) THEN cs[i] ELSE low[i])], w),
                 <<WilderSums([i \in 1..n |->
                       IF IsNa(ud[1][i]) THEN NaN
                       ELSE IF Gt(ud[1][i], ud[2][i]) /\ Gt(ud[1][i], R(0))
                       THEN RAbs(ud[1][i]) ELSE R(0)], w),
                   WilderSums([i \in 1..n |->
                       IF IsNa(ud[2][i]) THEN NaN
                       ELSE IF Gt(ud[2][i], ud[1][i]) /\ Gt(ud[2][i], R(0))
                       THEN RAbs(ud[2][i]) ELSE R(0)], w)>>),
            Shift1(close),
            <<SeqSub(high, Shift1(high)), SeqSub(Shift1(low), low)>>)

(***************************************************************************)
(* indicators/trend.py                                                     *)
(***************************************************************************)
SMACrossover_lookback == SMA_LONG

SMACrossover_compute(df) ==
    IF FrameLen(df) < SMACrossover_lookback
    THEN SetColumn(SetColumn(df, "SMA_short", NaNColumn(FrameLen(df))),
                   "SMA_long", NaNColumn(FrameLen(df)))
    ELSE SetColumn(SetColumn(df, "SMA_short",
                             ta_sma_indicator(df["Close"], SMA_SHORT)),
                   "SMA_long", ta_sma_indicator(df["Close"], SMA_LONG))

SMACrossover_get_signal(df0, idx) ==
  Let1(LAMBDA df :
    LET name   == "SMA Crossover"
        n      == FrameLen(df)
        sma_s  == iloc(df["SMA_short"], idx)
        sma_l  == iloc(df["SMA_long"], idx)
        prev_s == iloc(df["SMA_short"], PrevIdx(idx))
        prev_l == iloc(df["SMA_long"], PrevIdx(idx))
    IN  IF ~InRange(n, idx) THEN Raised(name)
        ELSE IF IsNa(sma_s) \/ IsNa(sma_l)
        THEN SignalResult(name, "HOLD", R(0), "Insufficient data")
        ELSE IF ~InRange(n, PrevIdx(idx)) THEN Raised(name)
        ELSE IF IsNa(prev_s) \/ IsNa(prev_l)
        THEN SignalResult(name, "HOLD", R(0), "Insufficient data")
        ELSE IF Le(prev_s, prev_l) /\ Gt(sma_s, sma_l)
        THEN SignalResult(name, "BUY",
                 PyMin(R(1), Mul(Div(RAbs(Sub(sma_s, sma_l)), sma_l), R(20))),
                 "Golden cross")
        ELSE IF Ge(prev_s, prev_l) /\ Lt(sma_s, sma_l)
        THEN SignalResult(name, "SELL",
                 PyMin(R(1), Mul(Div(RAbs(Sub(sma_l, sma_s)), sma_l), R(20))),
                 "Death cross")
        ELSE IF Gt(sma_s, sma_l)
        THEN SignalResult(name, "BUY",
                 PyMin(<<2, 5>>, Mul(Div(Sub(sma_s, sma_l), sma_l), R(10))),
                 "SMA short above SMA long")
        ELSE IF Lt(sma_s, sma_l)
        THEN SignalResult(name, "SELL",
                 PyMin(<<2, 5>>, Mul(Div(Sub(sma_l, sma_s), sma_l), R(10))),
                 "SMA short below SMA long")
        ELSE SignalResult(name, "HOLD", R(0), "SMAs equal"),
    IF ~HasColumn(df0, "SMA_short") THEN SMACrossover_compute(df0) ELSE df0)

EMACrossover_lookback == EMA_LONG

EMACrossover_compute(df) ==
    IF FrameLen(df) < EMACrossover_lookback
    THEN SetColumn(SetColumn(df, "EMA_short", NaNColumn(FrameLen(df))),
                   "EMA_long", NaNColumn(FrameLen(df)))
    ELSE SetColumn(SetColumn(df, "EMA_short",
                             ta_ema_indicator(df["Close"], EMA_SHORT)),
                   "EMA_long", ta_ema_indicator(df["Close"], EMA_LONG))

EMACrossover_get_signal(df0, idx) ==
  Let1(LAMBDA df :
    LET name   == "EMA Crossover"
        n      == FrameLen(df)
        ema_s  == iloc(df["EMA_short"], idx)
        ema_l  == iloc(df["EMA_long"], idx)
        prev_s == iloc(df["EMA_short"], PrevIdx(idx))
        prev_l == iloc(df["EMA_long"], PrevIdx(idx))
    IN  IF ~InRange(n, idx) THEN Raised(name)
        ELSE IF IsNa(ema_s) \/ IsNa(ema_l)
        THEN SignalResult(name, "HOLD", R(0), "Insufficient data")
        ELSE IF ~InRange(n, PrevIdx(idx)) THEN Raised(name)
        ELSE IF IsNa(prev_s) \/ IsNa(prev_l)
        THEN SignalResult(name, "HOLD", R(0), "Insufficient data")
        ELSE IF Le(prev_s, prev_l) /\ Gt(ema_s, ema_l)
        THEN SignalResult(name, "BUY",
                 PyMin(R(1), Mul(Div(RAbs(Sub(ema_s, ema_l)), ema_l), R(25))),
                 "EMA short crossed above EMA long")
        ELSE IF Ge(prev_s, prev_l) /\ Lt(ema_s, ema_l)
        THEN SignalResult(name, "SELL",
                 PyMin(R(1), Mul(Div(RAbs(Sub(ema_l, ema_s)), ema_l), R(25))),
                 "EMA short crossed below EMA long")
        ELSE IF Gt(ema_s, ema_l)
        THEN SignalResult(name, "BUY",
                 PyMin(<<2, 5>>, Mul(Div(Sub(ema_s, ema_l), ema_l), R(12))),
                 "EMA short above EMA long")
        ELSE IF Lt(ema_s, ema_l)
        THEN SignalResult(name, "SELL",
                 PyMin(<<2, 5>>, Mul(Div(Sub(ema_l, ema_s), ema_l), R(12))),
                 "EMA short below EMA long")
        ELSE SignalResult(name, "HOLD", R(0), "EMAs equal"),
    IF ~HasColumn(df0, "EMA_short") THEN EMACrossover_compute(df0) ELSE df0)

MACD_lookback == MACD_SLOW + MACD_SIGNAL

MACD_compute(df) ==
    IF FrameLen(df) < MACD_lookback
    THEN SetColumn(SetColumn(SetColumn(df, "MACD_line", NaNColumn(FrameLen(df))),
                             "MACD_signal", NaNColumn(FrameLen(df))),
                   "MACD_hist", NaNColumn(FrameLen(df)))
    ELSE Let1(LAMBDA macd_obj :
                  SetColumn(SetColumn(SetColumn(df, "MACD_line", macd_obj.macd),
                                      "MACD_signal", macd_obj.macd_signal),
                            "MACD_hist", macd_obj.macd_diff),
              ta_MACD(df["Close"], MACD_SLOW, MACD_FAST, MACD_SIGNAL))

MACD_get_signal(df0, idx) ==
  Let1(LAMBDA df :
    LET name        == "MACD"
        n           == FrameLen(df)
        macd        == iloc(df["MACD_line"], idx)
        signal      == iloc(df["MACD_signal"], idx)
        hist        == iloc(df["MACD_hist"], idx)
        prev_macd   == iloc(df["MACD_line"], PrevIdx(idx))
        prev_signal == iloc(df["MACD_signal"], PrevIdx(idx))
    IN  IF ~InRange(n, idx) THEN Raised(name)
        ELSE IF IsNa(macd) \/ IsNa(signal)
        THEN SignalResult(name, "HOLD", R(0), "Insufficient data")
        ELSE IF ~InRange(n, PrevIdx(idx)) THEN Raised(name)
        ELSE IF IsNa(prev_macd) \/ IsNa(prev_signal)
        THEN SignalResult(name, "HOLD", R(0), "Insufficient data")
        ELSE IF Le(prev_macd, prev_signal) /\ Gt(macd, signal)
        THEN SignalResult(name, "BUY", PyMin(R(1), Mul(RAbs(hist), R(50))),
                 "MACD crossed above signal line")
        ELSE IF Ge(prev_macd, prev_signal) /\ Lt(macd, signal)
        THEN SignalResult(name, "SELL", PyMin(R(1), Mul(RAbs(hist), R(50))),
                 "MACD crossed below signal line")
        ELSE IF Gt(macd, signal)
        THEN SignalResult(name, "BUY", PyMin(<<1, 2>>, Mul(RAbs(hist), R(30))),
                 "MACD above signal line")
        ELSE IF Lt(macd, signal)
        THEN SignalResult(name, "SELL", PyMin(<<1, 2>>, Mul(RAbs(hist), R(30))),
                 "MACD below signal line")
        ELSE SignalResult(name, "HOLD", R(0), "MACD neutral"),
    IF ~HasColumn(df0, "MACD_line") THEN MACD_compute(df0) ELSE df0)

ADX_lookback == ADX_PERIOD * 2

ADX_compute(df) ==
    IF FrameLen(df) < ADX_lookback
    THEN SetColumn(SetColumn(SetColumn(df, "ADX", NaNColumn(FrameLen(df))),
                             "ADX_pos", NaNColumn(FrameLen(df))),
                   "ADX_neg", NaNColumn(FrameLen(df)))
    ELSE Let1(LAMBDA adx_obj :
                  SetColumn(SetColumn(SetColumn(df, "ADX", adx_obj.adx),
                                      "ADX_pos", adx_obj.adx_pos),
                            "ADX_neg", adx_obj.adx_neg),
              ta_ADXIndicator(df["High"], df["Low"], df["Close"], ADX_PERIOD))

\* a faulty variant of ADX.get_signal: undefined readings are not tested
ADX_get_signal_NoNaGuard(df0, idx) ==
  Let1(LAMBDA df :
    LET name     == "ADX"
        n        == FrameLen(df)
        adx      == iloc(df["ADX"], idx)
        plus_di  == iloc(df["ADX_pos"], idx)
        minus_di == iloc(df["ADX_neg"], idx)
        trend_strength == PyMin(R(1), Div(Sub(adx, R(20)), R(40)))
    IN  IF ~InRange(n, idx) THEN Raised(name)
        ELSE IF Lt(adx, R(20))
        THEN SignalResult(name, "HOLD", <<1, 5>>, "Weak trend")
        ELSE IF Gt(plus_di, minus_di)
        THEN SignalResult(name, "BUY", trend_strength, "Bullish trend")
        ELSE IF Gt(minus_di, plus_di)
        THEN SignalResult(name, "SELL", trend_strength, "Bearish trend")
        ELSE SignalResult(name, "HOLD", <<1, 10>>, "DIs equal"),
    IF ~HasColumn(df0, "ADX") THEN ADX_compute(df0) ELSE df0)

ADX_get_signal(df0, idx) ==
  Let1(LAMBDA df :
    LET name     == "ADX"
        n        == FrameLen(df)
        adx      == iloc(df["ADX"], idx)
        plus_di  == iloc(df["ADX_pos"], idx)
        minus_di == iloc(df["ADX_neg"], idx)
        trend_strength == PyMin(R(1), Div(Sub(adx, R(20)), R(40)))
    IN  IF ~InRange(n, idx) THEN Raised(name)
        ELSE IF IsNa(adx) \/ IsNa(plus_di) \/ IsNa(minus_di)
        THEN SignalResult(name, "HOLD", R(0), "Insufficient data")
        ELSE IF Lt(adx, R(20))
        THEN SignalResult(name, "HOLD", <<1, 5>>, "Weak trend")
        ELSE IF Gt(plus_di, minus_di)
        THEN SignalResult(name, "BUY", trend_strength, "Bullish trend")
        ELSE IF Gt(minus_di, plus_di)
        THEN SignalResult(name, "SELL", trend_strength, "Bearish trend")
        ELSE SignalResult(name, "HOLD", <<1, 10>>, "DIs equal"),
    IF ~HasColumn(df0, "ADX") THEN ADX_compute(df0) ELSE df0)

(***************************************************************************)
(* indicators/momentum.py                                                  *)
(***************************************************************************)
RSI_lookback == RSI_PERIOD

RSI_compute(df) ==
    IF FrameLen(df) < RSI_lookback
    THEN SetColumn(df, "RSI", NaNColumn(FrameLen(df)))
    ELSE SetColumn(df, "RSI", ta_rsi(df["Close"], RSI_PERIOD))

\* a faulty variant of get_signal: the zones include their boundaries
RSI_get_signal_InclusiveZones(df0, idx) ==
  Let1(LAMBDA df :
    LET name == "RSI"
        n    == FrameLen(df)
        rsi  == iloc(df["RSI"], idx)
    IN  IF ~InRange(n, idx) THEN Raised(name)
        ELSE IF IsNa(rsi)
        THEN SignalResult(name, "HOLD", R(0), "Insufficient data")
        ELSE IF Le(rsi, R(RSI_OVERSOLD))
        THEN SignalResult(name, "BUY",
                 PyMin(R(1), Div(Sub(R(RSI_OVERSOLD), rsi), R(RSI_OVERSOLD))),
                 "Oversold")
        ELSE IF Ge(rsi, R(RSI_OVERBOUGHT))
        THEN SignalResult(name, "SELL",
                 PyMin(R(1), Div(Sub(rsi, R(RSI_OVERBOUGHT)),
                                 R(100 - RSI_OVERBOUGHT))),
                 "Overbought")
        ELSE IF Lt(rsi, R(45))
        THEN SignalResult(name, "SELL", <<3, 20>>, "Leaning bearish")
        ELSE IF Gt(rsi, R(55))
        THEN SignalResult(name, "BUY", <<3, 20>>, "Leaning bullish")
        ELSE SignalResult(name, "HOLD", R(0), "Neutral"),
    IF ~HasColumn(df0, "RSI") THEN RSI_compute(df0) ELSE df0)

\* RSI.get_signal(df, idx)
RSI_get_signal(df0, idx) ==
  Let1(LAMBDA df :
    LET name == "RSI"
        n    == FrameLen(df)
        rsi  == iloc(df["RSI"], idx)
    IN  IF ~InRange(n, idx) THEN Raised(name)
        ELSE IF IsNa(rsi)
        THEN SignalResult(name, "HOLD", R(0), "Insufficient data")
        ELSE IF Lt(rsi, R(RSI_OVERSOLD))
        THEN SignalResult(name, "BUY",
                 PyMin(R(1), Div(Sub(R(RSI_OVERSOLD), rsi), R(RSI_OVERSOLD))),
                 "Oversold")
        ELSE IF Gt(rsi, R(RSI_OVERBOUGHT))
        THEN SignalResult(name, "SELL",
                 PyMin(R(1), Div(Sub(rsi, R(RSI_OVERBOUGHT)),
                                 R(100 - RSI_OVERBOUGHT))),
                 "Overbought")
        ELSE IF Lt(rsi, R(45))
        THEN SignalResult(name, "SELL", <<3, 20>>, "Leaning bearish")
        ELSE IF Gt(rsi, R(55))
        THEN SignalResult(name, "BUY", <<3, 20>>, "Leaning bullish")
        ELSE SignalResult(name, "HOLD", R(0), "Neutral"),
    IF ~HasColumn(df0, "RSI") THEN RSI_compute(df0) ELSE df0)

Stochastic_lookback == STOCH_K + STOCH_D

Stochastic_compute(df) ==
    IF FrameLen(df) < Stochastic_lookback
    THEN SetColumn(SetColumn(df, "Stoch_K", NaNColumn(FrameLen(df))),
                   "Stoch_D", NaNColumn(FrameLen(df)))
    ELSE Let1(LAMBDA stoch :
                  SetColumn(SetColumn(df, "Stoch_K", stoch.stoch),
                            "Stoch_D", stoch.stoch_signal),
              ta_StochasticOscillator(df["High"], df["Low"], df["Close"],
                                      STOCH_K, STOCH_SMOOTH))

Stochastic_get_signal(df0, idx) ==
  Let1(LAMBDA df :
    LET name   == "Stochastic"
        n      == FrameLen(df)
        k      == iloc(df["Stoch_K"], idx)
        d      == iloc(df["Stoch_D"], idx)
        prev_k == iloc(df["Stoch_K"], PrevIdx(idx))
        prev_d == iloc(df["Stoch_D"], PrevIdx(idx))
    IN  IF ~InRange(n, idx) THEN Raised(name)
        ELSE IF IsNa(k) \/ IsNa(d)
        THEN SignalResult(name, "HOLD", R(0), "Insufficient data")
        ELSE IF ~InRange(n, PrevIdx(idx)) THEN Raised(name)
        ELSE IF IsNa(prev_k) \/ IsNa(prev_d)
        THEN SignalResult(name, "HOLD", R(0), "Insufficient data")
        ELSE IF Lt(k, R(STOCH_OVERSOLD)) /\ Le(prev_k, prev_d) /\ Gt(k, d)
        THEN SignalResult(name, "BUY",
                 PyMax(<<1, 2>>,
                       PyMin(R(1), Div(Sub(R(STOCH_OVERSOLD), k),
                                       R(STOCH_OVERSOLD)))),
                 "Bullish crossover in oversold zone")
        ELSE IF Gt(k, R(STOCH_OVERBOUGHT)) /\ Ge(prev_k, prev_d) /\ Lt(k, d)
        THEN SignalResult(name, "SELL",
                 PyMax(<<1, 2>>,
                       PyMin(R(1), Div(Sub(k, R(STOCH_OVERBOUGHT)),
                                       R(100 - STOCH_OVERBOUGHT)))),
                 "Bearish crossover in overbought zone")
        ELSE IF Lt(k, R(STOCH_OVERSOLD))
        THEN SignalResult(name, "BUY", <<3, 10>>, "Oversold")
        ELSE IF Gt(k, R(STOCH_OVERBOUGHT))
        THEN SignalResult(name, "SELL", <<3, 10>>, "Overbought")
        ELSE SignalResult(name, "HOLD", R(0), "Neutral"),
    IF ~HasColumn(df0, "Stoch_K") THEN Stochastic_compute(df0) ELSE df0)

(***************************************************************************)
(* indicators/volatility.py                                                *)
(***************************************************************************)
BollingerBands_lookback == BB_PERIOD

BollingerBands_compute(df) ==
    IF FrameLen(df) < BollingerBands_lookback
    THEN SetColumn(SetColumn(SetColumn(SetColumn(df,
             "BB_upper", NaNColumn(FrameLen(df))),
             "BB_middle", NaNColumn(FrameLen(df))),
             "BB_lower", NaNColumn(FrameLen(df))),
             "BB_pband", NaNColumn(FrameLen(df)))
    ELSE Let1(LAMBDA bb :
                  SetColumn(SetColumn(SetColumn(SetColumn(df,
                      "BB_upper", bb.hband),
                      "BB_middle", bb.mavg),
                      "BB_lower", bb.lband),
                      "BB_pband", bb.pband),
              ta_BollingerBands(df["Close"], BB_PERIOD, BB_STD))

BollingerBands_get_signal(df0, idx) ==
  Let1(LAMBDA df :
    LET name  == "Bollinger Bands"
        n     == FrameLen(df)
        close == iloc(df["Close"], idx)
        upper == iloc(df["BB_upper"], idx)
        lower == iloc(df["BB_lower"], idx)
        pband == iloc(df["BB_pband"], idx)
    IN  IF ~InRange(n, idx) THEN Raised(name)
        ELSE IF IsNa(upper) \/ IsNa(lower) \/ IsNa(pband)
        THEN SignalResult(name, "HOLD", R(0), "Insufficient data")
        ELSE IF Le(close, lower)
        THEN SignalResult(name, "BUY",
                 PyMin(R(1), PyMax(<<1, 2>>,
                     IF upper # lower
                     THEN Div(Sub(lower, close), Sub(upper, lower))
                     ELSE <<1, 2>>)),
                 "Price at lower Bollinger Band")
        ELSE IF Ge(close, upper)
        THEN SignalResult(name, "SELL",
                 PyMin(R(1), PyMax(<<1, 2>>,
                     IF upper # lower
                     THEN Div(Sub(close, upper), Sub(upper, lower))
                     ELSE <<1, 2>>)),
                 "Price at upper Bollinger Band")
        ELSE IF Lt(pband, <<1, 5>>)
        THEN SignalResult(name, "BUY", <<3, 10>>, "Price near lower band")
        ELSE IF Gt(pband, <<4, 5>>)
        THEN SignalResult(name, "SELL", <<3, 10>>, "Price near upper band")
        ELSE SignalResult(name, "HOLD", R(0), "Price within bands"),
    IF ~HasColumn(df0, "BB_upper") THEN BollingerBands_compute(df0) ELSE df0)

(***************************************************************************)
(* indicators/volume.py                                                    *)
(***************************************************************************)
VWAP_lookback == 1

VWAP_compute(df) ==
    LET typical_price ==
            SeqScale(SeqAdd(SeqAdd(df["High"], df["Low"]), df["Close"]), <<1, 3>>)
    IN  SetColumn(df, "VWAP",
            SeqDiv(CumSum(SeqMul(typical_price, df["Volume"])),
                   CumSum(df["Volume"])))

\* a faulty variant of get_signal: a VWAP of 0 is not guarded
VWAP_get_signal_NoZeroGuard(df0, idx) ==
  Let1(LAMBDA df :
    LET name     == "VWAP"
        n        == FrameLen(df)
        close    == iloc(df["Close"], idx)
        vwap     == iloc(df["VWAP"], idx)
        pct_diff == Div(Sub(close, vwap), vwap)
    IN  IF ~InRange(n, idx) THEN Raised(name)
        ELSE IF IsNa(vwap)
        THEN SignalResult(name, "HOLD", R(0), "Insufficient data")
        ELSE IF Gt(close, vwap)
        THEN SignalResult(name, "BUY",
                 PyMin(<<4, 5>>, Mul(RAbs(pct_diff), R(10))), "Price above VWAP")
        ELSE IF Lt(close, vwap)
        THEN SignalResult(name, "SELL",
                 PyMin(<<4, 5>>, Mul(RAbs(pct_diff), R(10))), "Price below VWAP")
        ELSE SignalResult(name, "HOLD", R(0), "Price at VWAP"),
    IF ~HasColumn(df0, "VWAP") THEN VWAP_compute(df0) ELSE df0)

\* VWAP.get_signal(df, idx)
VWAP_get_signal(df0, idx) ==
  Let1(LAMBDA df :
    LET name     == "VWAP"
        n        == FrameLen(df)
        close    == iloc(df["Close"], idx)
        vwap     == iloc(df["VWAP"], idx)
        pct_diff == Div(Sub(close, vwap), vwap)
    IN  IF ~InRange(n, idx) THEN Raised(name)
        ELSE IF IsNa(vwap) \/ Eq(vwap, R(0))
        THEN SignalResult(name, "HOLD", R(0), "Insufficient data")
        ELSE IF Gt(close, vwap)
        THEN SignalResult(name, "BUY",
                 PyMin(<<4, 5>>, Mul(RAbs(pct_diff), R(10))), "Price above VWAP")
        ELSE IF Lt(close, vwap)
        THEN SignalResult(name, "SELL",
                 PyMin(<<4, 5>>, Mul(RAbs(pct_diff), R(10))), "Price below VWAP")
        ELSE SignalResult(name, "HOLD", R(0), "Price at VWAP"),
    IF ~HasColumn(df0, "VWAP") THEN VWAP_compute(df0) ELSE df0)

OBV_lookback == 20

OBV_compute(df) ==
    IF FrameLen(df) < OBV_lookback
    THEN SetColumn(SetColumn(df, "OBV", NaNColumn(FrameLen(df))),
                   "OBV_SMA", NaNColumn(FrameLen(df)))
    ELSE Let1(LAMBDA obv : SetColumn(SetColumn(df, "OBV", obv),
                                     "OBV_SMA", RollingMean(obv, 20)),
              ta_on_balance_volume(df["Close"], df["Volume"]))

\* obv_slice = df["OBV"].iloc[start_idx:]; its range, with the 0 and NaN
\* cases replaced by 1
OBV_range(df, start_idx) ==
    Let1(LAMBDA obv_slice :
        Let1(LAMBDA obv_range :
                 IF IsNa(obv_range) \/ Eq(obv_range, R(0)) THEN R(1)
                 ELSE obv_range,
             Sub(SeriesMax(obv_slice), SeriesMin(obv_slice))),
        ilocFrom(df["OBV"], start_idx))

OBV_get_signal(df0, idx) ==
  Let1(LAMBDA df :
    LET name        == "OBV"
        n           == FrameLen(df)
        obv         == iloc(df["OBV"], idx)
        obv_sma     == iloc(df["OBV_SMA"], idx)
        lookback    == IF 10 < n - 1 THEN 10 ELSE n - 1
        start_idx   == IF idx # -1 THEN idx - lookback ELSE -(lookback + 1)
        price_start == iloc(df["Close"], start_idx)
        obv_start   == iloc(df["OBV"], start_idx)
        price_change == Sub(iloc(df["Close"], idx), price_start)
        obv_change  == Sub(iloc(df["OBV"], idx), obv_start)
        obv_range   == OBV_range(df, start_idx)
    IN  IF ~InRange(n, idx) THEN Raised(name)
        ELSE IF IsNa(obv) \/ IsNa(obv_sma)
        THEN SignalResult(name, "HOLD", R(0), "Insufficient data")
        ELSE IF lookback < 2
        THEN SignalResult(name, "HOLD", R(0), "Insufficient data")
        ELSE IF ~InRange(n, start_idx) THEN Raised(name)
        ELSE IF IsNa(price_start) \/ IsNa(obv_start)
        THEN SignalResult(name, "HOLD", R(0), "Insufficient data")
        ELSE IF Lt(price_change, R(0)) /\ Gt(obv_change, R(0))
        THEN SignalResult(name, "BUY",
                 PyMin(<<4, 5>>, Div(RAbs(obv_change), obv_range)),
                 "Positive OBV divergence")
        ELSE IF Gt(price_change, R(0)) /\ Lt(obv_change, R(0))
        THEN SignalResult(name, "SELL",
                 PyMin(<<4, 5>>, Div(RAbs(obv_change), obv_range)),
                 "Negative OBV divergence")
        ELSE IF Gt(obv, obv_sma)
        THEN SignalResult(name, "BUY", <<3, 10>>, "OBV above its moving average")
        ELSE IF Lt(obv, obv_sma)
        THEN SignalResult(name, "SELL", <<3, 10>>, "OBV below its moving average")
        ELSE SignalResult(name, "HOLD", R(0), "OBV neutral"),
    IF ~HasColumn(df0, "OBV") THEN OBV_compute(df0) ELSE df0)

(***************************************************************************)
(* indicators/registry.py: the registered indicator classes, by name       *)
(***************************************************************************)
IndicatorNames ==
    {"SMA Crossover", "EMA Crossover", "MACD", "ADX", "RSI", "Stochastic",
     "Bollinger Bands", "VWAP", "OBV"}

\* the indicator classes carrying the @register decorator
Classes ==
    {"SMACrossover", "EMACrossover", "MACD", "ADX", "RSI", "Stochastic",
     "BollingerBands", "VWAP", "OBV"}

\* cls().name: the name property of an instance of the class
NameOf(cls) ==
    CASE cls = "SMACrossover"   -> "SMA Crossover"
      [] cls = "EMACrossover"   -> "EMA Crossover"
      [] cls = "BollingerBands" -> "Bollinger Bands"
      [] OTHER                  -> cls

\* cls(): object number `id` is a new instance of the class
Instance(cls, id) == [id |-> id, class |-> cls, name |-> NameOf(cls)]

\* _registry: dict[str, type[BaseIndicator]] = {}
EmptyRegistry == [n \in {} |-> "SMACrossover"]

\* register(cls): _registry[instance.name] = cls
register(registry, cls) ==
    [n \in DOMAIN registry \cup {NameOf(cls)} |->
        IF n = NameOf(cls) THEN cls ELSE registry[n]]

\* get_indicator without the membership test: an unknown name gives an
\* instance of the first class registered in trend.py
get_indicator_Default(registry, name, allocated) ==
    [raised   |-> "none",
     instance |-> Instance(IF name \in DOMAIN registry THEN registry[name]
                                                       ELSE "SMACrossover",
                           allocated + 1),
     registry |-> registry]

\* get_indicator(name): the exception raised ("none" for a normal return),
\* the instance returned and the registry afterwards; `allocated` is the
\* number of indicator objects constructed so far
get_indicator(registry, name, allocated) ==
    IF name \notin DOMAIN registry
    THEN [raised |-> "KeyError", instance |-> "none", registry |-> registry]
    ELSE [raised   |-> "none",
          instance |-> Instance(registry[name], allocated + 1),
          registry |-> registry]

\* the registry once every indicator module has been imported
Registered == [n \in IndicatorNames |-> CHOOSE cls \in Classes : NameOf(cls) = n]

\* instance.lookback
Lookback(name) ==
    CASE name = "SMA Crossover"   -> SMACrossover_lookback
      [] name = "EMA Crossover"   -> EMACrossover_lookback
      [] name = "MACD"            -> MACD_lookback
      [] name = "ADX"             -> ADX_lookback
      [] name = "RSI"             -> RSI_lookback
      [] name = "Stochastic"      -> Stochastic_lookback
      [] name = "Bollinger Bands" -> BollingerBands_lookback
      [] name = "VWAP"            -> VWAP_lookback
      [] name = "OBV"             -> OBV_lookback

\* instance.compute(df)
Compute(name, df) ==
    CASE name = "SMA Crossover"   -> SMACrossover_compute(df)
      [] name = "EMA Crossover"   -> EMACrossover_compute(df)
      [] name = "MACD"            -> MACD_compute(df)
      [] name = "ADX"             -> ADX_compute(df)
      [] name = "RSI"             -> RSI_compute(df)
      [] name = "Stochastic"      -> Stochastic_compute(df)
      [] name = "Bollinger Bands" -> BollingerBands_compute(df)
      [] name = "VWAP"            -> VWAP_compute(df)
      [] name = "OBV"             -> OBV_compute(df)

\* instance.get_signal(df, idx)
GetSignal(name, df, idx) ==
    CASE name = "SMA Crossover"   -> SMACrossover_get_signal(df, idx)
      [] name = "EMA Crossover"   -> EMACrossover_get_signal(df, idx)
      [] name = "MACD"            -> MACD_get_signal(df, idx)
      [] name = "ADX"             -> ADX_get_signal(df, idx)
      [] name = "RSI"             -> RSI_get_signal(df, idx)
      [] name = "Stochastic"      -> Stochastic_get_signal(df, idx)
      [] name = "Bollinger Bands" -> BollingerBands_get_signal(df, idx)
      [] name = "VWAP"            -> VWAP_get_signal(df, idx)
      [] name = "OBV"             -> OBV_get_signal(df, idx)

(***************************************************************************)
(* config/settings.py: the tables of the signal combination                *)
(***************************************************************************)
INDICATOR_WEIGHTS ==
    [n \in IndicatorNames |->
        CASE n = "SMA Crossover"   -> <<1, 1>>
          [] n = "EMA Crossover"   -> <<1, 1>>
          [] n = "MACD"            -> <<6, 5>>
          [] n = "ADX"             -> <<4, 5>>
          [] n = "RSI"             -> <<11, 10>>
          [] n = "Stochastic"      -> <<1, 1>>
          [] n = "Bollinger Bands" -> <<9, 10>>
          [] n = "VWAP"            -> <<4, 5>>
          [] n = "OBV"             -> <<7, 10>>]

Categories == {"trend", "momentum", "volatility", "volume"}

TIMESCALE_ADJUSTMENTS ==
    [short  |-> [trend |-> <<7, 10>>, momentum |-> <<7, 5>>,
                 volatility |-> <<6, 5>>, volume |-> <<1, 1>>],
     medium |-> [trend |-> <<1, 1>>, momentum |-> <<1, 1>>,
                 volatility |-> <<1, 1>>, volume |-> <<1, 1>>],
     long   |-> [trend |-> <<7, 5>>, momentum |-> <<7, 10>>,
                 volatility |-> <<4, 5>>, volume |-> <<1, 1>>]]

INDICATOR_CATEGORIES ==
    [n \in IndicatorNames |->
        CASE n \in {"SMA Crossover", "EMA Crossover", "MACD", "ADX"} -> "trend"
          [] n \in {"RSI", "Stochastic"}                            -> "momentum"
          [] n = "Bollinger Bands"                                  -> "volatility"
          [] n \in {"VWAP", "OBV"}                                  -> "volume"]

\* a faulty variant of the threshold: one percent
AMBIGUITY_THRESHOLD_OnePercent == <<1, 100>>

AMBIGUITY_THRESHOLD == <<1, 10>>

(***************************************************************************)
(* signals/combiner.py                                                     *)
(***************************************************************************)
\* a faulty variant of the buckets: the bounds 3 and 10 fall in the next one
_get_timescale_Strict(horizon_days) ==
    IF horizon_days < 3 THEN "short"
    ELSE IF horizon_days < 10 THEN "medium"
    ELSE "long"

_get_timescale(horizon_days) ==
    IF horizon_days <= 3 THEN "short"
    ELSE IF horizon_days <= 10 THEN "medium"
    ELSE "long"

_get_adjusted_weight(indicator_name, horizon_days) ==
    LET base_weight == IF indicator_name \in DOMAIN INDICATOR_WEIGHTS
                       THEN INDICATOR_WEIGHTS[indicator_name] ELSE R(1)
        category    == IF indicator_name \in DOMAIN INDICATOR_CATEGORIES
                       THEN INDICATOR_CATEGORIES[indicator_name] ELSE "trend"
        timescale   == _get_timescale(horizon_days)
        adjustment  == IF category \in DOMAIN TIMESCALE_ADJUSTMENTS[timescale]
                       THEN TIMESCALE_ADJUSTMENTS[timescale][category] ELSE R(1)
    IN  Mul(base_weight, adjustment)

CombinedSignal(direction, confidence, scores, individual_signals, reasoning) ==
    [direction          |-> direction,
     confidence         |-> confidence,
     scores             |-> scores,
     individual_signals |-> individual_signals,
     reasoning          |-> reasoning]

\* the loop of combine_signals over indicators.items(), from the k-th item:
\* the frame the indicators have annotated so far, the signals collected and
\* the per-direction scores; raised is set when a get_signal call raised
RECURSIVE CollectSignals(_, _, _, _, _, _, _, _)
CollectSignals(indicators, k, working_df, horizon_days, idx, precomputed, individual_signals, direction_scores) ==
    IF k > Len(indicators)
    THEN [raised |-> FALSE, individual_signals |-> individual_signals,
          direction_scores |-> direction_scores]
    ELSE LET name   == indicators[k]
             weight == _get_adjusted_weight(name, horizon_days)
         IN  Let1(LAMBDA wdf :
                 Let1(LAMBDA signal :
                     IF IsRaised(signal)
                     THEN [raised |-> TRUE,
                           individual_signals |-> individual_signals,
                           direction_scores |-> direction_scores]
                     ELSE Let2(LAMBDA signals, scores :
                                  CollectSignals(indicators, k + 1, wdf,
                                      horizon_days, idx, precomputed,
                                      signals, scores),
                              Append(individual_signals, signal),
                              [direction_scores EXCEPT ![signal.direction] =
                                   Add(@, Mul(signal.confidence, weight))]),
                     GetSignal(name, wdf, idx)),
                 IF ~precomputed THEN Compute(name, working_df)
                 ELSE working_df)

\* a faulty variant of the total: the HOLD score competes too
directional_total_WithHold(direction_scores) ==
    Add(Add(direction_scores["BUY"], direction_scores["SELL"]),
        direction_scores["HOLD"])

\* only BUY and SELL compete; HOLD is the fallback when neither wins
directional_total(direction_scores) ==
    Add(direction_scores["BUY"], direction_scores["SELL"])

\* a faulty variant of the decision: the winner's confidence is its score
DecideDirection_RawScore(direction_scores, individual_signals) ==
    LET buy_score  == direction_scores["BUY"]
        sell_score == direction_scores["SELL"]
        total      == directional_total(direction_scores)
        top_dir    == IF Ge(buy_score, sell_score) THEN "BUY" ELSE "SELL"
        top_score  == IF Ge(buy_score, sell_score) THEN buy_score ELSE sell_score
        second_score == IF top_dir = "BUY" THEN sell_score ELSE buy_score
    IN  IF Eq(total, R(0))
        THEN CombinedSignal("HOLD", R(0), direction_scores, individual_signals,
                 "No actionable signals from any indicator")
        ELSE IF Lt(Div(Sub(top_score, second_score), total), AMBIGUITY_THRESHOLD)
        THEN CombinedSignal("HOLD", R(0), direction_scores, individual_signals,
                 "Ambiguous: BUY vs SELL - too close to call")
        ELSE CombinedSignal(top_dir, top_score,
                 direction_scores, individual_signals,
                 IF top_dir = "BUY" THEN "BUY wins" ELSE "SELL wins")

\* a faulty variant of the decision: an ambiguous HOLD keeps the share of
\* the larger score as its confidence
DecideDirection_HoldKeepsShare(direction_scores, individual_signals) ==
    LET buy_score  == direction_scores["BUY"]
        sell_score == direction_scores["SELL"]
        total      == directional_total(direction_scores)
        top_dir    == IF Ge(buy_score, sell_score) THEN "BUY" ELSE "SELL"
        top_score  == IF Ge(buy_score, sell_score) THEN buy_score ELSE sell_score
        second_score == IF top_dir = "BUY" THEN sell_score ELSE buy_score
    IN  IF Eq(total, R(0))
        THEN CombinedSignal("HOLD", R(0), direction_scores, individual_signals,
                 "No actionable signals from any indicator")
        ELSE IF Lt(Div(Sub(top_score, second_score), total), AMBIGUITY_THRESHOLD)
        THEN CombinedSignal("HOLD", Div(top_score, total), direction_scores,
                 individual_signals, "Ambiguous: BUY vs SELL - too close to call")
        ELSE CombinedSignal(top_dir, Div(top_score, total),
                 direction_scores, individual_signals,
                 IF top_dir = "BUY" THEN "BUY wins" ELSE "SELL wins")

\* the decision on the scores: no directional score, an ambiguous margin,
\* or the larger of BUY and SELL
DecideDirection(direction_scores, individual_signals) ==
    LET buy_score  == direction_scores["BUY"]
        sell_score == direction_scores["SELL"]
        total      == directional_total(direction_scores)
        top_dir    == IF Ge(buy_score, sell_score) THEN "BUY" ELSE "SELL"
        top_score  == IF Ge(buy_score, sell_score) THEN buy_score ELSE sell_score
        second_score == IF top_dir = "BUY" THEN sell_score ELSE buy_score
    IN  IF Eq(total, R(0))
        THEN CombinedSignal("HOLD", R(0), direction_scores, individual_signals,
                 "No actionable signals from any indicator")
        ELSE IF Lt(Div(Sub(top_score, second_score), total), AMBIGUITY_THRESHOLD)
        THEN CombinedSignal("HOLD", R(0), direction_scores, individual_signals,
                 "Ambiguous: BUY vs SELL - too close to call")
        ELSE CombinedSignal(top_dir, Div(top_score, total),
                 direction_scores, individual_signals,
                 IF top_dir = "BUY" THEN "BUY wins" ELSE "SELL wins")

\* a faulty variant of the combiner: HOLD signals are not listed
combine_signals_DropHold(indicators, df, horizon_days, idx, precomputed) ==
    Let1(LAMBDA loop :
             IF loop.raised
             THEN CombinedSignal("RAISED", NaN, loop.direction_scores,
                                 loop.individual_signals, "IndexError")
             ELSE DecideDirection(loop.direction_scores,
                      SelectSeq(loop.individual_signals,
                                LAMBDA sig : sig.direction # "HOLD")),
         CollectSignals(indicators, 1, df, horizon_days, idx, precomputed,
                        <<>>, [d \in Directions |-> R(0)]))

combine_signals(indicators, df, horizon_days, idx, precomputed) ==
    Let1(LAMBDA loop :
             IF loop.raised
             THEN CombinedSignal("RAISED", NaN, loop.direction_scores,
                                 loop.individual_signals, "IndexError")
             ELSE DecideDirection(loop.direction_scores,
                                  loop.individual_signals),
         CollectSignals(indicators, 1, df, horizon_days, idx, precomputed,
                        <<>>, [d \in Directions |-> R(0)]))

(***************************************************************************)
(* backtesting/report.py                                                   *)
(***************************************************************************)
Trade(entry_date, exit_date, direction, entry_price, exit_price, predicted_direction, actual_direction, correct, pnl_pct) ==
    [entry_date          |-> entry_date,
     exit_date           |-> exit_date,
     direction           |-> direction,
     entry_price         |-> entry_price,
     exit_price          |-> exit_price,
     predicted_direction |-> predicted_direction,
     actual_direction    |-> actual_direction,
     correct             |-> correct,
     pnl_pct             |-> pnl_pct]

\* pd.Series(dtype=float): the empty equity curve
EmptySeries == [values |-> <<>>, index |-> <<>>]

\* a faulty variant of the report's defaults: the equity curve starts out
\* holding the initial capital
BacktestReport_SeededCurve(ticker, period, horizon, capital) ==
    [ticker            |-> ticker,
     period            |-> period,
     horizon_days      |-> horizon,
     initial_capital   |-> capital,
     trades            |-> <<>>,
     total_trades      |-> 0,
     winning_trades    |-> 0,
     losing_trades     |-> 0,
     win_rate          |-> R(0),
     cumulative_return |-> R(0),
     max_drawdown      |-> R(0),
     sharpe_ratio      |-> R(0),
     profit_factor     |-> R(0),
     equity_curve      |-> [values |-> <<capital>>, index |-> <<0>>]]

\* a new report: no trades, every metric at its default.  sharpe_ratio
\* holds the signed square of the ratio (sign(x) * x * x), which is rational.
BacktestReport(ticker, period, horizon, capital) ==
    [ticker            |-> ticker,
     period            |-> period,
     horizon_days      |-> horizon,
     initial_capital   |-> capital,
     trades            |-> <<>>,
     total_trades      |-> 0,
     winning_trades    |-> 0,
     losing_trades     |-> 0,
     win_rate          |-> R(0),
     cumulative_return |-> R(0),
     max_drawdown      |-> R(0),
     sharpe_ratio      |-> R(0),
     profit_factor     |-> R(0),
     equity_curve      |-> EmptySeries]

(***************************************************************************)
(* backtesting/metrics.py                                                  *)
(***************************************************************************)
\* a faulty variant of the equity loop: each trade adds its return on the
\* initial capital (no compounding)
Equity_Simple(trades, capital) ==
    FoldRange(LAMBDA equity, k :
                  Append(equity, Add(equity[Len(equity)],
                                     Mul(capital, trades[k].pnl_pct))),
              <<capital>>, 1, Len(trades))

\* a faulty variant of the equity loop: the first trade is skipped
Equity_SkipsFirst(trades, capital) ==
    FoldRange(LAMBDA equity, k :
                  Append(equity,
                         IF k = 1 THEN equity[Len(equity)]
                         ELSE Mul(equity[Len(equity)],
                                  Add(R(1), trades[k].pnl_pct))),
              <<capital>>, 1, Len(trades))

\* equity = [initial_capital]; each trade appends equity[-1] * (1 + pnl_pct)
Equity(trades, capital) ==
    FoldRange(LAMBDA equity, k :
                  Append(equity, Mul(equity[Len(equity)],
                                     Add(R(1), trades[k].pnl_pct))),
              <<capital>>, 1, Len(trades))

\* a faulty variant of the drawdown loop: the peak stays the first value
DrawdownStep_FirstPeak(st, val) ==
    Let1(LAMBDA dd : [peak   |-> st.peak,
                      max_dd |-> IF Gt(dd, st.max_dd) THEN dd ELSE st.max_dd],
         Div(Sub(st.peak, val), st.peak))

\* one pass of the drawdown loop: the running peak and the largest
\* (peak - val) / peak seen
DrawdownStep(st, val) ==
    Let1(LAMBDA peak :
             Let1(LAMBDA dd : [peak   |-> peak,
                               max_dd |-> IF Gt(dd, st.max_dd) THEN dd
                                          ELSE st.max_dd],
                  Div(Sub(peak, val), peak)),
         IF Gt(val, st.peak) THEN val ELSE st.peak)

MaxDrawdown(equity) ==
    FoldRange(LAMBDA st, k : DrawdownStep(st, equity[k]),
              [peak |-> equity[1], max_dd |-> R(0)], 1, Len(equity)).max_dd

\* (np.mean(returns) / np.std(returns)) * np.sqrt(252) when there is more
\* than one return and their (population) deviation is positive, else 0;
\* as its signed square: sign(mean) * mean^2 * 252 / variance
SharpeRatio(returns) ==
    LET n == Len(returns)
    IN  Let2(LAMBDA mean, var :
                 IF n > 1 /\ Gt(var, R(0))
                 THEN Mul(R(Sign(mean[1])),
                          Div(Mul(Mul(mean, mean), R(252)), var))
                 ELSE R(0),
             Div(SumSeq(returns), R(n)), Variance(returns, n))

\* a faulty variant of the profit factor: the ratio is taken unguarded
ProfitFactor_Unguarded(returns) ==
    LET gross_profit == SumSeq(SelectSeq(returns, LAMBDA x : Gt(x, R(0))))
        gross_loss   == RAbs(SumSeq(SelectSeq(returns, LAMBDA x : Lt(x, R(0)))))
    IN  Div(gross_profit, gross_loss)

\* gross_profit / gross_loss if gross_loss > 0 else float("inf")
ProfitFactor(returns) ==
    LET gross_profit == SumSeq(SelectSeq(returns, LAMBDA x : Gt(x, R(0))))
        gross_loss   == RAbs(SumSeq(SelectSeq(returns, LAMBDA x : Lt(x, R(0)))))
    IN  IF Gt(gross_loss, R(0)) THEN Div(gross_profit, gross_loss) ELSE Inf

\* a faulty variant of compute_metrics: a report without trades is given
\* the profit factor of a report without losing trades
compute_metrics_EmptyIsNoLoss(report) ==
    LET trades  == report.trades
        total   == Len(trades)
        winning == Cardinality({k \in 1..total : trades[k].correct})
        dates   == <<trades[1].entry_date>>
                       \o [k \in 1..total |-> trades[k].exit_date]
    IN  IF total = 0
        THEN [report EXCEPT !.total_trades = 0, !.profit_factor = Inf]
        ELSE Let2(LAMBDA equity, returns :
             [report EXCEPT
                 !.total_trades      = total,
                 !.winning_trades    = winning,
                 !.losing_trades     = total - winning,
                 !.win_rate          = Norm(winning, total),
                 !.equity_curve      = [values |-> equity, index |-> dates],
                 !.cumulative_return =
                     Sub(Div(equity[Len(equity)], equity[1]), R(1)),
                 !.max_drawdown      = MaxDrawdown(equity),
                 !.sharpe_ratio      = SharpeRatio(returns),
                 !.profit_factor     = ProfitFactor(returns)],
             Equity(trades, report.initial_capital),
             [k \in 1..total |-> trades[k].pnl_pct])

\* a faulty variant of compute_metrics: a trade wins when its return is
\* positive
compute_metrics_WinsByReturn(report) ==
    LET trades  == report.trades
        total   == Len(trades)
        winning == Cardinality({k \in 1..total : Gt(trades[k].pnl_pct, R(0))})
        dates   == <<trades[1].entry_date>>
                       \o [k \in 1..total |-> trades[k].exit_date]
    IN  IF total = 0
        THEN [report EXCEPT !.total_trades = 0]
        ELSE Let2(LAMBDA equity, returns :
             [report EXCEPT
                 !.total_trades      = total,
                 !.winning_trades    = winning,
                 !.losing_trades     = total - winning,
                 !.win_rate          = Norm(winning, total),
                 !.equity_curve      = [values |-> equity, index |-> dates],
                 !.cumulative_return =
                     Sub(Div(equity[Len(equity)], equity[1]), R(1)),
                 !.max_drawdown      = MaxDrawdown(equity),
                 !.sharpe_ratio      = SharpeRatio(returns),
                 !.profit_factor     = ProfitFactor(returns)],
             Equity(trades, report.initial_capital),
             [k \in 1..total |-> trades[k].pnl_pct])

compute_metrics(report) ==
    LET trades  == report.trades
        total   == Len(trades)
        winning == Cardinality({k \in 1..total : trades[k].correct})
        dates   == <<trades[1].entry_date>>
                       \o [k \in 1..total |-> trades[k].exit_date]
    IN  IF total = 0
        THEN [report EXCEPT !.total_trades = 0]
        ELSE Let2(LAMBDA equity, returns :
             [report EXCEPT
                 !.total_trades      = total,
                 !.winning_trades    = winning,
                 !.losing_trades     = total - winning,
                 !.win_rate          = Norm(winning, total),
                 !.equity_curve      = [values |-> equity, index |-> dates],
                 !.cumulative_return =
                     Sub(Div(equity[Len(equity)], equity[1]), R(1)),
                 !.max_drawdown      = MaxDrawdown(equity),
                 !.sharpe_ratio      = SharpeRatio(returns),
                 !.profit_factor     = ProfitFactor(returns)],
             Equity(trades, report.initial_capital),
             [k \in 1..total |-> trades[k].pnl_pct])

(***************************************************************************)
(* State.  df, indicators, horizon_days and initial_capital are the        *)
(* arguments of the call; computed_df, t and report are the locals of      *)
(* run_backtest and pc its position.  idx, other_df and result belong to   *)
(* the calls of the pure functions (get_signal, compute, combine_signals), *)
(* which are made on a pair of inputs: (indicators, df) and                *)
(* (other_indicators, other_df).  _registry is the dictionary of           *)
(* indicators/registry.py.                                                 *)
(***************************************************************************)
VARIABLES df, indicators, horizon_days, initial_capital,
          computed_df, t, report, pc,
          idx, other_df, other_indicators, result, _registry

vars == <<df, indicators, horizon_days, initial_capital,
          computed_df, t, report, pc, idx, other_df, other_indicators, result,
          _registry>>

(***************************************************************************)
(* Input series.  A series is a run of identical bars (the flat history)   *)
(* followed by a tail of bars drawn from TailBars; timestamps are trading  *)
(* days (weekends skipped), ascending and unique.                          *)
(***************************************************************************)
MaxTail == 5

MaxHorizon == 2

Bar(high, low, close, volume) ==
    [High |-> high, Low |-> low, Close |-> close, Volume |-> volume]

BaseBar == Bar(5, 3, 4, 1)

TailBars == {Bar(3, 1, 2, 2), Bar(5, 3, 4, 1), Bar(6, 4, 5, 1)}

\* the timestamp of the bar at 0-based position i, as a day number
Calendar(i) == i + 2 * (i \div 5)

MakeFrame(bars) ==
    [c \in {"Date", "Open", "High", "Low", "Close", "Volume"} |->
        [i \in 1..Len(bars) |->
            CASE c = "Date"   -> Calendar(i - 1)
              [] c = "Open"   -> R(bars[i].Close)
              [] c = "High"   -> R(bars[i].High)
              [] c = "Low"    -> R(bars[i].Low)
              [] c = "Close"  -> R(bars[i].Close)
              [] c = "Volume" -> R(bars[i].Volume)]]

Flat(n) == [i \in 1..n |-> BaseBar]

\* all sequences over S of length lo..hi
SeqsOf(S, lo, hi) == UNION {[1..k -> S] : k \in lo..hi}

(***************************************************************************)
(* backtesting/engine.py: run_backtest                                     *)
(***************************************************************************)
\* computed_df = df.copy(); each indicator annotates it in turn
RECURSIVE ComputeAll(_, _, _)
ComputeAll(inds, k, frame) ==
    IF k > Len(inds) THEN frame
    ELSE Let1(LAMBDA f : ComputeAll(inds, k + 1, f), Compute(inds[k], frame))

\* max(ind.lookback for ind in indicators.values())
MaxLookback(inds) ==
    CHOOSE m \in {Lookback(inds[k]) : k \in 1..Len(inds)} :
        \A k \in 1..Len(inds) : Lookback(inds[k]) <= m

\* a faulty variant of the warm-up: the buffer is left out
Warmup_NoBuffer(inds) == MaxLookback(inds)

\* warmup = max_lookback + WARMUP_BUFFER
Warmup(inds) == MaxLookback(inds) + WARMUP_BUFFER

TestEnd == FrameLen(computed_df) - horizon_days

\* the combiner's decision at bar t, on the pre-computed columns
SignalAt(bar) == combine_signals(indicators, computed_df, horizon_days, bar, TRUE)

\* a faulty variant of the trade record: an unchanged price counts as a rise
NewTrade_FlatIsBuy(frame, bar, horizon, predicted_direction) ==
    LET entry_price   == iloc(frame["Close"], bar)
        exit_price    == iloc(frame["Close"], bar + horizon)
        actual_direction == IF Ge(Sub(exit_price, entry_price), R(0))
                            THEN "BUY" ELSE "SELL"
    IN  Trade(iloc(frame["Date"], bar), iloc(frame["Date"], bar + horizon),
              predicted_direction, entry_price, exit_price,
              predicted_direction, actual_direction,
              predicted_direction = actual_direction,
              IF predicted_direction = "BUY"
              THEN Div(Sub(exit_price, entry_price), entry_price)
              ELSE Div(Sub(entry_price, exit_price), entry_price))

\* a faulty variant of the trade record: the gain of a SELL is computed as
\* that of a BUY
NewTrade_PnlOfBuy(frame, bar, horizon, predicted_direction) ==
    LET entry_price   == iloc(frame["Close"], bar)
        exit_price    == iloc(frame["Close"], bar + horizon)
        entry_date    == iloc(frame["Date"], bar)
        exit_date     == iloc(frame["Date"], bar + horizon)
        actual_change == Sub(exit_price, entry_price)
        actual_direction == IF Gt(actual_change, R(0)) THEN "BUY" ELSE "SELL"
        correct       == predicted_direction = actual_direction
        pnl_pct       == Div(Sub(exit_price, entry_price), entry_price)
    IN  Trade(entry_date, exit_date, predicted_direction, entry_price,
              exit_price, predicted_direction, actual_direction, correct,
              pnl_pct)

\* the trade opened at bar and closed horizon_days bars later
NewTrade(frame, bar, horizon, predicted_direction) ==
    LET entry_price   == iloc(frame["Close"], bar)
        exit_price    == iloc(frame["Close"], bar + horizon)
        entry_date    == iloc(frame["Date"], bar)
        exit_date     == iloc(frame["Date"], bar + horizon)
        actual_change == Sub(exit_price, entry_price)
        actual_direction == IF Gt(actual_change, R(0)) THEN "BUY" ELSE "SELL"
        correct       == predicted_direction = actual_direction
        pnl_pct       == IF predicted_direction = "BUY"
                         THEN Div(Sub(exit_price, entry_price), entry_price)
                         ELSE Div(Sub(entry_price, exit_price), entry_price)
    IN  Trade(entry_date, exit_date, predicted_direction, entry_price,
              exit_price, predicted_direction, actual_direction, correct,
              pnl_pct)

\* a faulty variant of the advance after a trade: one bar, as after a HOLD
AfterTrade_OneBar(bar, horizon) == bar + 1

\* the bar the scan moves to after a trade opened at bar
AfterTrade(bar, horizon) == bar + horizon

\* a faulty variant of the advance after a HOLD: a bar is skipped
AfterHold_Skips(bar) == bar + 2

\* a faulty variant of the advance after a HOLD: the index stays
AfterHold_Stays(bar) == bar

\* the bar the scan moves to after a HOLD at bar
AfterHold(bar) == bar + 1

\* lines 34-59: the report is created, the indicators are computed, and a
\* series too short for warmup + horizon returns the empty report
Start ==
    /\ pc = "start"
    /\ computed_df' = ComputeAll(indicators, 1, df)
    /\ report' = BacktestReport("TICK", "6mo", horizon_days, initial_capital)
    /\ IF Warmup(indicators) >= FrameLen(df) - horizon_days
       THEN pc' = "done" /\ t' = t
       ELSE pc' = "scan" /\ t' = Warmup(indicators)
    /\ UNCHANGED <<df, indicators, horizon_days, initial_capital,
                   idx, other_df, other_indicators, result,
                   _registry>>

\* lines 62-69: the combiner says HOLD at bar t
ScanHold ==
    /\ pc = "scan"
    /\ t < TestEnd
    /\ SignalAt(t).direction = "HOLD"
    /\ t' = AfterHold(t)
    /\ UNCHANGED <<df, indicators, horizon_days, initial_capital,
                   computed_df, report, pc, idx, other_df, other_indicators, result,
                   _registry>>

\* a faulty variant of ScanTrade: the new trade is inserted at the head of
\* the list (report.trades.insert(0, trade))
ScanTrade_Prepends ==
    /\ pc = "scan"
    /\ t < TestEnd
    /\ \E combined \in {SignalAt(t)} :
          /\ combined.direction \in {"BUY", "SELL"}
          /\ report' = [report EXCEPT !.trades =
                 <<NewTrade(computed_df, t, horizon_days,
                            combined.direction)>> \o @]
    /\ t' = AfterTrade(t, horizon_days)
    /\ UNCHANGED <<df, indicators, horizon_days, initial_capital,
                   computed_df, pc, idx, other_df, other_indicators, result,
                   _registry>>

\* lines 62-104: the combiner says BUY or SELL at bar t
ScanTrade ==
    /\ pc = "scan"
    /\ t < TestEnd
    /\ \E combined \in {SignalAt(t)} :
          /\ combined.direction \in {"BUY", "SELL"}
          /\ report' = [report EXCEPT !.trades =
                 Append(@, NewTrade(computed_df, t, horizon_days,
                                    combined.direction))]
    /\ t' = AfterTrade(t, horizon_days)
    /\ UNCHANGED <<df, indicators, horizon_days, initial_capital,
                   computed_df, pc, idx, other_df, other_indicators, result,
                   _registry>>

\* lines 106-107: the loop is over; the metrics are computed and the report
\* returned
Finish ==
    /\ pc = "scan"
    /\ t >= TestEnd
    /\ report' = compute_metrics(report)
    /\ pc' = "done"
    /\ UNCHANGED <<df, indicators, horizon_days, initial_capital,
                   computed_df, t, idx, other_df, other_indicators, result,
                   _registry>>

\* the indicator selections of the backtest
IndicatorSets == {<<"VWAP">>, <<"VWAP", "OBV">>}

Capitals == {R(10000)}

NoCall == [fn |-> "none"]

Init ==
    /\ _registry = Registered
    /\ indicators \in IndicatorSets
    /\ horizon_days \in 1..MaxHorizon
    /\ initial_capital \in Capitals
    /\ \E warm \in BOOLEAN :
         \E tail \in SeqsOf(TailBars, IF warm THEN 0 ELSE 2, MaxTail) :
            df = MakeFrame(Flat(IF warm THEN Warmup(indicators) ELSE 0) \o tail)
    /\ computed_df = df
    /\ t = 0
    /\ report = BacktestReport("TICK", "6mo", horizon_days, initial_capital)
    /\ pc = "start"
    /\ idx = 0
    /\ other_df = df
    /\ other_indicators = indicators
    /\ result = NoCall

Next == Start \/ ScanHold \/ ScanTrade \/ Finish

Spec == Init /\ [][Next]_vars

\* run_backtest is a sequential call that is left to run: a step that can
\* be taken is eventually taken.  The series are those of Init whose bars
\* close at 4 (the flat bar) or at 2 (the falling bar).
LiveInit == Init /\ \A i \in 1..FrameLen(df) : df["Close"][i] \in {R(2), R(4)}

LiveSpec == LiveInit /\ [][Next]_vars /\ WF_vars(Next)

(***************************************************************************)
(* One indicator on a pair of series: the engine's order of calls, compute *)
(* on the whole series (engine.py, lines 46-48) and then get_signal at a   *)
(* bar (combiner.py, line 58).  df and other_df have the same rows up to   *)
(* idx and the same flat history, and may differ in every later row;       *)
(* result holds what the calls returned, for df, for other_df and for the  *)
(* prefix of df that ends at idx.                                          *)
(***************************************************************************)
SignalTail == 2

IdxStep == 10

\* the lengths of the flat history before the tail
Histories == {0, SMA_LONG}

\* the bars the rows after idx of other_df are made of
AltBars == {Bar(5, 3, 4, 1), Bar(6, 4, 5, 3)}

\* two frames have the same columns and in each the same rows 0..i
SameRowsTo(a, b, i) ==
    /\ DOMAIN a = DOMAIN b
    /\ \A c \in DOMAIN a : SubSeq(a[c], 1, i + 1) = SubSeq(b[c], 1, i + 1)

\* the columns compute added to a frame
Added(frame) == DOMAIN frame \ {"Date", "Open", "High", "Low", "Close", "Volume"}

IndicatorInit ==
    /\ _registry = Registered
    /\ \E name \in IndicatorNames : indicators = <<name>>
    /\ \E h \in Histories, tail \in SeqsOf(TailBars, 1, SignalTail),
          alt \in AltBars :
          /\ df = MakeFrame(Flat(h) \o tail)
          /\ idx \in {i \in 0..(h + Len(tail) - 1) :
                          i % IdxStep = 0 \/ i >= h - 1}
          /\ other_df = MakeFrame([i \in 1..(h + Len(tail)) |->
                             IF i <= idx + 1 \/ i <= h
                             THEN (Flat(h) \o tail)[i] ELSE alt])
    /\ other_indicators = indicators
    /\ horizon_days = 1
    /\ initial_capital = R(0)
    /\ computed_df = df
    /\ t = 0
    /\ report = BacktestReport("TICK", "6mo", horizon_days, initial_capital)
    /\ pc = "call"
    /\ result = NoCall

\* indicator.compute on df, on other_df and on the prefix of df ending at idx
ComputeCall ==
    /\ pc = "call"
    /\ result' = [fn     |-> "compute",
                  full   |-> Compute(indicators[1], df),
                  other  |-> Compute(indicators[1], other_df),
                  prefix |-> Compute(indicators[1], Prefix(df, idx + 1))]
    /\ pc' = "computed"
    /\ UNCHANGED <<df, indicators, horizon_days, initial_capital, computed_df,
                   t, report, idx, other_df, other_indicators,
                   _registry>>

\* indicator.get_signal at idx on each of the two computed frames, and
\* get_signal and combine_signals on the first at idx and at the default
\* index -1
GetSignalCall ==
    /\ pc = "computed"
    /\ result' = [fn     |-> "get_signal",
                  full   |-> result.full,
                  agree  |-> SameRowsTo(result.full, result.other, idx),
                  first  |-> GetSignal(indicators[1], result.full, idx),
                  second |-> GetSignal(indicators[1], result.other, idx),
                  last   |-> GetSignal(indicators[1], result.full, -1),
                  combined |-> combine_signals(indicators, result.full,
                                               horizon_days, idx, TRUE),
                  combined_last |-> combine_signals(indicators, result.full,
                                                    horizon_days, -1, TRUE)]
    /\ pc' = "done"
    /\ UNCHANGED <<df, indicators, horizon_days, initial_capital, computed_df,
                   t, report, idx, other_df, other_indicators,
                   _registry>>

IndicatorNext == ComputeCall \/ GetSignalCall

IndicatorSpec == IndicatorInit /\ [][IndicatorNext]_vars

(***************************************************************************)
(* combine_signals on a pair of inputs with pre-computed columns.  A       *)
(* frame has two equal rows and the call is made at the second.  Each      *)
(* indicator of Pool is either absent or has one of its Readings in its    *)
(* columns; the second input has the BUY and SELL readings of the first    *)
(* and may differ in the readings that make an indicator say HOLD.         *)
(***************************************************************************)
Horizons == {3, 4, 5, 10, 11}

Pool == <<"SMA Crossover", "EMA Crossover", "ADX", "RSI">>

\* the readings of an indicator: each a sequence of <<column, value>>
Readings(name) ==
    CASE name = "SMA Crossover" ->
            {<<<<"SMA_short", R(110)>>, <<"SMA_long", R(100)>>>>,
             <<<<"SMA_short", R(90)>>, <<"SMA_long", R(100)>>>>,
             <<<<"SMA_short", R(101)>>, <<"SMA_long", R(100)>>>>}
      [] name = "EMA Crossover" ->
            {<<<<"EMA_short", R(110)>>, <<"EMA_long", R(100)>>>>,
             <<<<"EMA_short", R(90)>>, <<"EMA_long", R(100)>>>>}
      [] name = "ADX" ->
            {<<<<"ADX", R(10)>>, <<"ADX_pos", R(20)>>, <<"ADX_neg", R(10)>>>>,
             <<<<"ADX", R(40)>>, <<"ADX_pos", R(20)>>, <<"ADX_neg", R(20)>>>>,
             <<<<"ADX", R(40)>>, <<"ADX_pos", R(30)>>, <<"ADX_neg", R(10)>>>>}
      [] name = "RSI" ->
            {<<<<"RSI", R(25)>>>>, <<<<"RSI", R(29)>>>>, <<<<"RSI", R(50)>>>>,
             <<<<"RSI", R(75)>>>>}

\* the frame of the readings c (one per indicator of Pool, <<>> for absent)
VoteFrame(c) ==
    LET pairs == c[1] \o c[2] \o c[3] \o c[4]
        cols  == {pairs[k][1] : k \in 1..Len(pairs)}
    IN  [col \in {"Date", "Open", "High", "Low", "Close", "Volume"} \cup cols |->
            IF col = "Date" THEN <<0, 1>>
            ELSE IF col \in cols
            THEN LET k == CHOOSE j \in 1..Len(pairs) : pairs[j][1] = col
                 IN  <<pairs[k][2], pairs[k][2]>>
            ELSE <<R(100), R(100)>>]

\* the indicators that have a reading in c, in the order of Pool
Voters(c) ==
    LET ks == SelectSeq(<<1, 2, 3, 4>>, LAMBDA k : c[k] # <<>>)
    IN  [j \in 1..Len(ks) |-> Pool[ks[j]]]

\* the direction an indicator gives on one of its readings
ReadingDirection(k, reading) ==
    GetSignal(Pool[k], VoteFrame([j \in 1..4 |-> IF j = k THEN reading ELSE <<>>]),
              1).direction

\* what the second input may hold for the k-th indicator of Pool
OtherReadings(k, reading) ==
    IF reading # <<>> /\ ReadingDirection(k, reading) # "HOLD" THEN {reading}
    ELSE {<<>>} \cup {r \in Readings(Pool[k]) : ReadingDirection(k, r) = "HOLD"}

CombinerInit ==
    /\ _registry = Registered
    /\ horizon_days \in Horizons
    /\ \E c1 \in Readings(Pool[1]) \cup {<<>>}, c2 \in Readings(Pool[2]) \cup {<<>>},
          c3 \in Readings(Pool[3]) \cup {<<>>}, c4 \in Readings(Pool[4]) \cup {<<>>} :
          \E o1 \in OtherReadings(1, c1), o2 \in OtherReadings(2, c2),
             o3 \in OtherReadings(3, c3), o4 \in OtherReadings(4, c4) :
             /\ indicators = Voters(<<c1, c2, c3, c4>>)
             /\ df = VoteFrame(<<c1, c2, c3, c4>>)
             /\ other_indicators = Voters(<<o1, o2, o3, o4>>)
             /\ other_df = VoteFrame(<<o1, o2, o3, o4>>)
    /\ idx = 1
    /\ initial_capital = R(0)
    /\ computed_df = df
    /\ t = 0
    /\ report = BacktestReport("TICK", "6mo", horizon_days, initial_capital)
    /\ pc = "call"
    /\ result = NoCall

\* combine_signals(indicators, df, horizon_days, idx, precomputed=True) on
\* each of the two inputs
CombineCall ==
    /\ pc = "call"
    /\ result' = [fn     |-> "combine_signals",
                  first  |-> combine_signals(indicators, df, horizon_days,
                                             idx, TRUE),
                  second |-> combine_signals(other_indicators, other_df,
                                             horizon_days, idx, TRUE)]
    /\ pc' = "done"
    /\ UNCHANGED <<df, indicators, horizon_days, initial_capital, computed_df,
                   t, report, idx, other_df, other_indicators,
                   _registry>>

CombinerNext == CombineCall

CombinerSpec == CombinerInit /\ [][CombinerNext]_vars

(***************************************************************************)
(* SignalResult and get_signal on degenerate readings.  A call is either   *)
(* the construction of a SignalResult from a supplied confidence, or       *)
(* get_signal of one indicator at the latest bar of a three-row frame      *)
(* whose columns hold extreme values: undefined, negative, zero, infinite. *)
(***************************************************************************)
Extremes == {NaN, R(-1), R(0), R(25), R(100), Inf}

Supplied == Extremes \cup {<<1, 2>>, R(1), R(2), Neg(Inf)}

\* RSI readings around the thresholds 30, 45, 55 and 70
RSIReadings ==
    {R(15), R(29), <<59, 2>>, R(30), <<61, 2>>, R(31), R(44), <<89, 2>>, R(45),
     R(50), R(55), <<111, 2>>, R(56), R(69), <<139, 2>>, R(70), <<141, 2>>,
     R(71), R(85)}

\* the values a column of an indicator takes at the latest bar
ReadingsOf(name) ==
    CASE name = "RSI" -> Extremes \cup RSIReadings
      [] name = "OBV" -> Extremes \cup {R(50)}
      [] OTHER        -> Extremes

\* the columns get_signal of an indicator reads
SignalColumns(name) ==
    CASE name = "SMA Crossover"   -> <<"SMA_short", "SMA_long">>
      [] name = "EMA Crossover"   -> <<"EMA_short", "EMA_long">>
      [] name = "MACD"            -> <<"MACD_line", "MACD_signal", "MACD_hist">>
      [] name = "ADX"             -> <<"ADX", "ADX_pos", "ADX_neg">>
      [] name = "RSI"             -> <<"RSI">>
      [] name = "Stochastic"      -> <<"Stoch_K", "Stoch_D">>
      [] name = "Bollinger Bands" -> <<"Close", "BB_upper", "BB_lower", "BB_pband">>
      [] name = "VWAP"            -> <<"Close", "VWAP">>
      [] name = "OBV"             -> <<"Close", "OBV", "OBV_SMA">>

\* what the bar before the latest holds: one value in every column, or
\* the values of the latest bar
PrevRows == {"nan", "zero", "fifty", "same"}

\* a three-row frame: every column of cols holds first, then the previous
\* row, then its value in now
ExtremeFrame(cols, first, prev, now) ==
    LET names == {cols[k] : k \in 1..Len(cols)}
        Now(c) == now[CHOOSE k \in 1..Len(cols) : cols[k] = c]
        Prev(c) == CASE prev = "nan"   -> NaN
                     [] prev = "zero"  -> R(0)
                     [] prev = "fifty" -> R(50)
                     [] prev = "same"  -> Now(c)
    IN  [c \in {"Date", "Open", "High", "Low", "Close", "Volume"} \cup names |->
            IF c = "Date" THEN <<0, 1, 2>>
            ELSE IF c \in names THEN <<first, Prev(c), Now(c)>>
            ELSE <<R(50), R(50), R(50)>>]

SignalInit ==
    /\ _registry = Registered
    /\ \/ /\ \E name \in IndicatorNames :
                /\ indicators = <<name>>
                /\ \E now \in [1..Len(SignalColumns(name)) -> ReadingsOf(name)],
                      prev \in PrevRows, first \in {R(50), NaN} :
                      df = ExtremeFrame(SignalColumns(name), first, prev, now)
          /\ idx \in {2, -1}
          /\ result = [fn |-> "get_signal"]
       \/ /\ indicators = <<"RSI">>
          /\ df = ExtremeFrame(<<>>, NaN, "nan", <<>>)
          /\ idx = -1
          /\ \E c \in Supplied :
                result = [fn |-> "SignalResult", supplied |-> c]
    /\ other_df = df
    /\ other_indicators = indicators
    /\ horizon_days = 1
    /\ initial_capital = R(0)
    /\ computed_df = df
    /\ t = 0
    /\ report = BacktestReport("TICK", "6mo", horizon_days, initial_capital)
    /\ pc = "call"

\* SignalResult(name, direction, confidence) with the supplied confidence
ConstructCall ==
    /\ pc = "call"
    /\ result.fn = "SignalResult"
    /\ result' = [fn       |-> "SignalResult",
                  supplied |-> result.supplied,
                  signal   |-> SignalResult(indicators[1], "BUY",
                                            result.supplied, "")]
    /\ pc' = "done"
    /\ UNCHANGED <<df, indicators, horizon_days, initial_capital, computed_df,
                   t, report, idx, other_df, other_indicators,
                   _registry>>

\* indicator.get_signal(df, idx) on the frame of readings
ReadingCall ==
    /\ pc = "call"
    /\ result.fn = "get_signal"
    /\ result' = [fn     |-> "get_signal",
                  signal |-> GetSignal(indicators[1], df, idx)]
    /\ pc' = "done"
    /\ UNCHANGED <<df, indicators, horizon_days, initial_capital, computed_df,
                   t, report, idx, other_df, other_indicators,
                   _registry>>

SignalNext == ConstructCall \/ ReadingCall

SignalSpec == SignalInit /\ [][SignalNext]_vars

(***************************************************************************)
(* compute_metrics on a report that holds a list of trades.  The trades    *)
(* are drawn from Outcomes (a return and whether the prediction was        *)
(* right); trade k enters at bar 3k and exits at bar 3k + 2.  The call is  *)
(* made a second time on the same trades with the capital result.capital.  *)
(***************************************************************************)
MaxTrades == 4

\* <<pnl_pct, correct>>
Outcomes ==
    {<<<<1, 50>>, TRUE>>, <<<<-1, 100>>, FALSE>>, <<R(0), FALSE>>,
     <<R(0), TRUE>>, <<<<1, 2>>, TRUE>>, <<R(-1), FALSE>>,
     <<<<-3, 2>>, FALSE>>}

MetricCapitals == {R(10000), R(1)}

\* the direction predicted in a trade of outcome o: a return is lost on a
\* BUY down to -1 and on a SELL below it; a flat price is right for a SELL
PredictedOf(o) ==
    IF Lt(o[1], R(-1)) THEN "SELL"
    ELSE IF o[2] = Gt(o[1], R(0)) THEN "BUY" ELSE "SELL"

\* the exit price of a trade of outcome o entered at 100
ExitOf(o) ==
    IF PredictedOf(o) = "BUY" THEN Mul(R(100), Add(R(1), o[1]))
    ELSE Mul(R(100), Sub(R(1), o[1]))

\* the trade list of the outcomes os
TradesOf(os) ==
    [k \in 1..Len(os) |->
        Trade(3 * k, 3 * k + 2, PredictedOf(os[k]), R(100), ExitOf(os[k]),
              PredictedOf(os[k]),
              IF Gt(ExitOf(os[k]), R(100)) THEN "BUY" ELSE "SELL",
              os[k][2], os[k][1])]

MetricsInit ==
    /\ _registry = Registered
    /\ initial_capital \in MetricCapitals
    /\ horizon_days = 2
    /\ \E os \in SeqsOf(Outcomes, 0, MaxTrades) :
          report = [BacktestReport("TICK", "6mo", horizon_days, initial_capital)
                        EXCEPT !.trades = TradesOf(os)]
    /\ \E c \in MetricCapitals :
          result = [fn |-> "compute_metrics", capital |-> c]
    /\ indicators = <<"VWAP">>
    /\ df = MakeFrame(<<BaseBar, BaseBar>>)
    /\ other_df = df
    /\ other_indicators = indicators
    /\ computed_df = df
    /\ idx = -1
    /\ t = 0
    /\ pc = "call"

\* report = compute_metrics(report)
MetricsCall ==
    /\ pc = "call"
    /\ result.fn = "compute_metrics"
    /\ report' = compute_metrics(report)
    /\ result' = [fn      |-> "compute_metrics",
                  capital |-> result.capital,
                  other   |-> compute_metrics(
                                  [report EXCEPT
                                      !.initial_capital = result.capital])]
    /\ pc' = "done"
    /\ UNCHANGED <<df, indicators, horizon_days, initial_capital, computed_df,
                   t, idx, other_df, other_indicators,
                   _registry>>

MetricsNext == MetricsCall

MetricsSpec == MetricsInit /\ [][MetricsNext]_vars

(***************************************************************************)
(* The frames as objects.  A DataFrame is an object that df[c] = ...       *)
(* changes in place and df.copy() duplicates; a heap is the sequence of    *)
(* the frames allocated so far and an object is its position in it.  The   *)
(* caller's frame is object 1.  Each operator below is the effect of a     *)
(* function on the heap: the heap it leaves and the object it returns.     *)
(***************************************************************************)
\* df.copy(): a new object with the same columns and values
copy_effect(heap, id) ==
    [heap |-> Append(heap, heap[id]), ret |-> Len(heap) + 1]

\* a faulty variant of compute: the columns are assigned on the frame
\* passed in
compute_effect_InPlace(name, heap, id) ==
    [heap |-> [heap EXCEPT ![id] = Compute(name, heap[id])], ret |-> id]

\* indicator.compute(df): df = df.copy(), the columns are assigned on the
\* copy, and the copy is returned
compute_effect(name, heap, id) ==
    Let1(LAMBDA c : [heap |-> [c.heap EXCEPT ![c.ret] = Compute(name, c.heap[c.ret])],
                     ret  |-> c.ret],
         copy_effect(heap, id))

\* the column get_signal looks for before it reads the frame
GuardColumn(name) ==
    CASE name = "SMA Crossover"   -> "SMA_short"
      [] name = "EMA Crossover"   -> "EMA_short"
      [] name = "MACD"            -> "MACD_line"
      [] name = "ADX"             -> "ADX"
      [] name = "RSI"             -> "RSI"
      [] name = "Stochastic"      -> "Stoch_K"
      [] name = "Bollinger Bands" -> "BB_upper"
      [] name = "VWAP"            -> "VWAP"
      [] name = "OBV"             -> "OBV"

\* indicator.get_signal(df, idx): df = self.compute(df) when the column is
\* missing; the rest only reads
get_signal_effect(name, heap, id) ==
    IF ~HasColumn(heap[id], GuardColumn(name))
    THEN compute_effect(name, heap, id).heap
    ELSE heap

RECURSIVE CollectEffect(_, _, _, _, _)
\* the loop of combine_signals from the k-th indicator, on the object
\* working
CollectEffect(inds, k, heap, working, precomputed) ==
    IF k > Len(inds) THEN heap
    ELSE Let1(LAMBDA w :
                  CollectEffect(inds, k + 1,
                                get_signal_effect(inds[k], w.heap, w.ret),
                                w.ret, precomputed),
              IF precomputed THEN [heap |-> heap, ret |-> working]
              ELSE compute_effect(inds[k], heap, working))

\* combine_signals: working_df = df if precomputed else df.copy(), then
\* the loop
combine_signals_effect(inds, heap, id, precomputed) ==
    Let1(LAMBDA w : CollectEffect(inds, 1, w.heap, w.ret, precomputed),
         IF precomputed THEN [heap |-> heap, ret |-> id]
         ELSE copy_effect(heap, id))

RECURSIVE ComputeAllEffect(_, _, _, _)
\* for name, indicator in indicators.items():
\*     computed_df = indicator.compute(computed_df)
ComputeAllEffect(inds, k, heap, computed) ==
    IF k > Len(inds) THEN [heap |-> heap, ret |-> computed]
    ELSE Let1(LAMBDA c : ComputeAllEffect(inds, k + 1, c.heap, c.ret),
              compute_effect(inds[k], heap, computed))

RECURSIVE ScanEffect(_, _, _, _, _)
\* the while loop of run_backtest from bar bar
ScanEffect(inds, heap, computed, horizon, bar) ==
    IF bar >= FrameLen(heap[computed]) - horizon THEN heap
    ELSE Let2(LAMBDA h, signal :
                  ScanEffect(inds, h, computed, horizon,
                             IF signal.direction = "HOLD" THEN AfterHold(bar)
                             ELSE AfterTrade(bar, horizon)),
              combine_signals_effect(inds, heap, computed, TRUE),
              combine_signals(inds, heap[computed], horizon, bar, TRUE))

\* run_backtest: computed_df = df.copy(), the inds are computed, and
\* the bars from warmup on are scanned unless the series is too short
run_backtest_effect(inds, heap, id, horizon) ==
    Let1(LAMBDA c :
             IF Warmup(inds) >= FrameLen(c.heap[c.ret]) - horizon
             THEN c.heap
             ELSE ScanEffect(inds, c.heap, c.ret, horizon,
                             Warmup(inds)),
         Let1(LAMBDA c0 : ComputeAllEffect(inds, 1, c0.heap, c0.ret),
              copy_effect(heap, id)))

\* the indicators of a call: each one alone, and VWAP followed by another
EffectIndicators ==
    {<<name>> : name \in IndicatorNames}
        \cup {<<"VWAP", name>> : name \in IndicatorNames \ {"VWAP"}}

\* the raw series of a call: two bars, and a flat history that outlasts
\* the warm-up of VWAP followed by a last bar
EffectSeries ==
    {MakeFrame(<<BaseBar, bar>>) : bar \in TailBars}
        \cup {MakeFrame(Flat(WARMUP_BUFFER + 2) \o <<bar>>) : bar \in TailBars}

FrameInit ==
    /\ _registry = Registered
    /\ indicators \in EffectIndicators
    /\ \E raw \in EffectSeries :
          df \in {raw, ComputeAll(indicators, 1, raw)}
    /\ horizon_days = 1
    /\ idx = -1
    /\ result = [fn |-> "none", heap |-> <<df>>]
    /\ other_df = df
    /\ other_indicators = indicators
    /\ initial_capital = R(10000)
    /\ computed_df = df
    /\ t = 0
    /\ report = BacktestReport("TICK", "6mo", horizon_days, initial_capital)
    /\ pc = "call"

\* indicator.compute(df) of the first indicator on the caller's frame
ComputeOp ==
    /\ pc = "call"
    /\ result.fn = "none"
    /\ result' = [fn   |-> "compute",
                  heap |-> compute_effect(indicators[1], result.heap, 1).heap]
    /\ pc' = "done"
    /\ UNCHANGED <<df, indicators, horizon_days, initial_capital, computed_df,
                   t, report, idx, other_df, other_indicators,
                   _registry>>

\* combine_signals(indicators, df, horizon_days, idx, precomputed) on the
\* caller's frame
CombineOp ==
    /\ pc = "call"
    /\ result.fn = "none"
    /\ \E precomputed \in BOOLEAN :
          result' = [fn          |-> "combine_signals",
                     precomputed |-> precomputed,
                     heap        |-> combine_signals_effect(indicators,
                                         result.heap, 1, precomputed)]
    /\ pc' = "done"
    /\ UNCHANGED <<df, indicators, horizon_days, initial_capital, computed_df,
                   t, report, idx, other_df, other_indicators,
                   _registry>>

\* run_backtest(df, indicators, ...) on the caller's frame
BacktestOp ==
    /\ pc = "call"
    /\ result.fn = "none"
    /\ result' = [fn   |-> "run_backtest",
                  heap |-> run_backtest_effect(indicators, result.heap, 1,
                                               horizon_days)]
    /\ pc' = "done"
    /\ UNCHANGED <<df, indicators, horizon_days, initial_capital, computed_df,
                   t, report, idx, other_df, other_indicators,
                   _registry>>

FrameNext == ComputeOp \/ CombineOp \/ BacktestOp

FrameSpec == FrameInit /\ [][FrameNext]_vars

(***************************************************************************)
(* Properties of run_backtest, under Spec.                                 *)
(***************************************************************************)
\* C1: for any two consecutive trades of the report, the later one is
\* entered at or after the exit of the earlier one:
\* entry_date(i+1) >= exit_date(i).
C1_NoOverlap ==
    \A i \in 1..(Len(report.trades) - 1) :
        report.trades[i + 1].entry_date >= report.trades[i].exit_date

\* a returned report of a backtest with a horizon of at least two bars that
\* holds two trades, the second entered on the bar the first was closed on
C1_Witness ==
    /\ pc = "done"
    /\ horizon_days >= 2
    /\ Len(report.trades) >= 2
    /\ report.trades[2].entry_date = report.trades[1].exit_date

\* C4: when warmup + horizon_days >= len(series), with warmup the largest
\* lookback plus WARMUP_BUFFER, the returned report has no trades,
\* total_trades = 0, the five metrics at zero and an empty equity curve.
C4_ShortSeriesEmptyReport ==
    (pc = "done" /\ Warmup(indicators) + horizon_days >= FrameLen(df)) =>
        /\ report.trades = <<>>
        /\ report.total_trades = 0
        /\ report.win_rate = R(0)
        /\ report.cumulative_return = R(0)
        /\ report.max_drawdown = R(0)
        /\ report.sharpe_ratio = R(0)
        /\ report.profit_factor = R(0)
        /\ report.equity_curve.values = <<>>

\* a backtest that returned on a series of exactly warmup + horizon_days bars
C4_Witness ==
    /\ pc = "done"
    /\ Warmup(indicators) + horizon_days = FrameLen(df)

\* C5: a trade appended at scan index t has entry_price = close[t],
\* exit_price = close[t + horizon], predicted_direction the combiner's BUY
\* or SELL at t, actual_direction BUY if the price rose and SELL otherwise
\* (an unchanged price included), correct = (predicted = actual), and
\* pnl_pct = (exit - entry) / entry for BUY, (entry - exit) / entry for SELL.
C5_TradeFields ==
    [][Len(report'.trades) = Len(report.trades) + 1 =>
        LET trade    == report'.trades[Len(report'.trades)]
            entry    == iloc(df["Close"], t)
            exit     == iloc(df["Close"], t + horizon_days)
            combined == combine_signals(indicators, computed_df, horizon_days,
                                        t, TRUE)
        IN  /\ trade.entry_price = entry
            /\ trade.exit_price = exit
            /\ trade.predicted_direction \in {"BUY", "SELL"}
            /\ trade.predicted_direction = combined.direction
            /\ trade.actual_direction =
                   IF Gt(exit, entry) THEN "BUY" ELSE "SELL"
            /\ trade.correct =
                   (trade.predicted_direction = trade.actual_direction)
            /\ trade.pnl_pct =
                   IF trade.predicted_direction = "BUY"
                   THEN Div(Sub(exit, entry), entry)
                   ELSE Div(Sub(entry, exit), entry)]_vars

\* a report holding a BUY trade whose price did not change over the horizon
\* (recorded as an actual SELL) and a SELL trade
C5_Witness ==
    /\ \E k \in 1..Len(report.trades) :
          /\ report.trades[k].predicted_direction = "BUY"
          /\ report.trades[k].exit_price = report.trades[k].entry_price
          /\ report.trades[k].actual_direction = "SELL"
          /\ ~report.trades[k].correct
    /\ \E k \in 1..Len(report.trades) :
          report.trades[k].predicted_direction = "SELL"

(***************************************************************************)
(* Properties of the indicators, under IndicatorSpec.                      *)
(***************************************************************************)
\* C2: get_signal at idx reads only rows at positions <= idx: two computed
\* series that agree on the rows 0..idx and differ only after idx give the
\* same SignalResult (direction and confidence) at idx.
C2_SignalReadsNoFutureRow ==
    (pc = "done" /\ result.agree) =>
        /\ result.first.direction = result.second.direction
        /\ result.first.confidence = result.second.confidence

\* C3: each column compute produces on the prefix S[0..t] has at position t
\* the value (NaN for undefined) that the column computed on the whole of S
\* has at position t.
C3_ComputeOfPrefixAgrees ==
    pc = "computed" =>
        \A c \in Added(result.full) :
            iloc(result.prefix[c], idx) = iloc(result.full[c], idx)

\* the indicators whose rule compares the bar at idx with the one before
CrossoverRules == {"SMA Crossover", "EMA Crossover", "MACD", "Stochastic"}

\* some column the rule of the indicator reads is undefined in frame at
\* position i
UndefinedAt(name, frame, i) ==
    \E k \in 1..Len(SignalColumns(name)) :
        IsNa(iloc(frame[SignalColumns(name)[k]], i))

\* C18: on a series of length >= 2, when a value the rule needs at idx (or
\* at the previous bar, for crossover rules) is undefined, get_signal
\* returns HOLD with confidence 0 and does not raise; so it does at the
\* latest bar of a series shorter than the indicator's lookback.
C18_UndefinedIsHold ==
    (pc = "done" /\ FrameLen(df) >= 2) =>
        /\ result.first.direction # "RAISED"
        /\ (\/ UndefinedAt(indicators[1], result.full, idx)
            \/ /\ indicators[1] \in CrossoverRules
               /\ idx >= 1
               /\ UndefinedAt(indicators[1], result.full, idx - 1)
            \/ /\ FrameLen(df) < Lookback(indicators[1])
               /\ idx = FrameLen(df) - 1) =>
               /\ result.first.direction = "HOLD"
               /\ result.first.confidence = R(0)

\* ADX at the latest bar of a two-bar series, shorter than its lookback:
\* the columns are undefined and the signal is HOLD with confidence 0
C18_Witness ==
    /\ pc = "done"
    /\ indicators = <<"ADX">>
    /\ FrameLen(df) = 2
    /\ idx = 1
    /\ IsNa(iloc(result.full["ADX"], idx))
    /\ result.first.direction = "HOLD"
    /\ result.first.confidence = R(0)

(***************************************************************************)
(* Properties of combine_signals, under CombinerSpec.                      *)
(***************************************************************************)
\* the two calls of a finished state: what was returned and for which
\* indicators
Calls ==
    {[out |-> result.first, names |-> indicators],
     [out |-> result.second, names |-> other_indicators]}

\* the larger and the smaller of the BUY and SELL totals
TopScore(scores) ==
    IF Ge(scores["BUY"], scores["SELL"]) THEN scores["BUY"] ELSE scores["SELL"]

SecondScore(scores) ==
    IF Ge(scores["BUY"], scores["SELL"]) THEN scores["SELL"] ELSE scores["BUY"]

\* (top - second) / (top + second)
Margin(scores) ==
    Div(Sub(TopScore(scores), SecondScore(scores)),
        Add(TopScore(scores), SecondScore(scores)))

BothZero(scores) == Eq(scores["BUY"], R(0)) /\ Eq(scores["SELL"], R(0))

\* 'short' for horizon <= 3, 'medium' for 4..10, 'long' above 10
Bucket(h) == IF h <= 3 THEN "short" ELSE IF h <= 10 THEN "medium" ELSE "long"

\* INDICATOR_WEIGHTS[name] x TIMESCALE_ADJUSTMENTS[bucket][category]
StatedWeight(name, h) ==
    Mul(INDICATOR_WEIGHTS[name],
        TIMESCALE_ADJUSTMENTS[Bucket(h)][INDICATOR_CATEGORIES[name]])

\* the sum of confidence x stated weight over the signals of direction d
StatedScore(call, d) ==
    SumSeq([k \in 1..Len(call.out.individual_signals) |->
               IF call.out.individual_signals[k].direction = d
               THEN Mul(call.out.individual_signals[k].confidence,
                        StatedWeight(call.names[k], horizon_days))
               ELSE R(0)])

\* the BUY and SELL signals of a call, in order
Voting(signals) == SelectSeq(signals, LAMBDA sig : sig.direction # "HOLD")

\* C6: when the BUY and SELL totals are not both zero and
\* (top - second) / (top + second) < 0.10, the result is HOLD with
\* confidence 0; two opposed signals of equal confidence and equal weight
\* give HOLD with confidence 0, never BUY; and no exception is raised.
C6_AmbiguousIsHold ==
    pc = "done" =>
        \A call \in Calls :
            /\ call.out.direction # "RAISED"
            /\ (~BothZero(call.out.scores)
                    /\ Lt(Margin(call.out.scores), <<1, 10>>)) =>
                   (call.out.direction = "HOLD" /\ call.out.confidence = R(0))
            /\ (/\ Len(call.names) = 2
                /\ call.out.individual_signals[1].direction = "BUY"
                /\ call.out.individual_signals[2].direction = "SELL"
                /\ call.out.individual_signals[1].confidence =
                       call.out.individual_signals[2].confidence
                /\ StatedWeight(call.names[1], horizon_days) =
                       StatedWeight(call.names[2], horizon_days)) =>
                   (call.out.direction = "HOLD" /\ call.out.confidence = R(0))

\* a BUY and a SELL signal of the same positive confidence and the same
\* weight, combined to HOLD with confidence 0
C6_Witness ==
    /\ pc = "done"
    /\ Len(indicators) = 2
    /\ result.first.individual_signals[1].direction = "BUY"
    /\ result.first.individual_signals[2].direction = "SELL"
    /\ Gt(result.first.individual_signals[1].confidence, R(0))
    /\ result.first.individual_signals[1].confidence =
           result.first.individual_signals[2].confidence
    /\ result.first.scores["BUY"] = result.first.scores["SELL"]
    /\ result.first.direction = "HOLD"
    /\ result.first.confidence = R(0)

\* C7: when the margin (top - second) / (top + second) is >= 0.10 the
\* direction is the label of the larger total and the confidence is
\* top / (top + second); a sole voter (the other total is 0) wins with
\* confidence 1, however small its own confidence.
C7_ClearWinner ==
    pc = "done" =>
        \A call \in Calls :
            /\ (~BothZero(call.out.scores)
                    /\ Ge(Margin(call.out.scores), <<1, 10>>)) =>
                   /\ call.out.direction =
                          IF Gt(call.out.scores["BUY"], call.out.scores["SELL"])
                          THEN "BUY" ELSE "SELL"
                   /\ call.out.confidence =
                          Div(TopScore(call.out.scores),
                              Add(TopScore(call.out.scores),
                                  SecondScore(call.out.scores)))
            /\ (Gt(call.out.scores["BUY"], R(0))
                    /\ Eq(call.out.scores["SELL"], R(0))) =>
                   (call.out.direction = "BUY" /\ call.out.confidence = R(1))
            /\ (Gt(call.out.scores["SELL"], R(0))
                    /\ Eq(call.out.scores["BUY"], R(0))) =>
                   (call.out.direction = "SELL" /\ call.out.confidence = R(1))

\* RSI alone at horizon 5 with RSI = 25: its own confidence is 1/6, the
\* combined signal is BUY with confidence 1
C7_Witness ==
    /\ pc = "done"
    /\ indicators = <<"RSI">>
    /\ horizon_days = 5
    /\ iloc(df["RSI"], idx) = R(25)
    /\ result.first.individual_signals[1].confidence = <<1, 6>>
    /\ result.first.direction = "BUY"
    /\ result.first.confidence = R(1)

\* C8: when the BUY and SELL totals sum to 0 the result is HOLD with
\* confidence 0 and the reasoning 'No actionable signals from any
\* indicator', and it carries the three-key score map and the signal of
\* every indicator.
C8_NoActionableSignals ==
    pc = "done" =>
        \A call \in Calls :
            Eq(Add(call.out.scores["BUY"], call.out.scores["SELL"]), R(0)) =>
                /\ call.out.direction = "HOLD"
                /\ call.out.confidence = R(0)
                /\ call.out.reasoning =
                       "No actionable signals from any indicator"
                /\ DOMAIN call.out.scores = {"BUY", "SELL", "HOLD"}
                /\ Len(call.out.individual_signals) = Len(call.names)
                /\ \A k \in 1..Len(call.names) :
                       call.out.individual_signals[k].indicator_name = call.names[k]

\* two indicators that both say HOLD, one of them with a confidence above
\* 0: no directional score, a positive HOLD score
C8_Witness ==
    /\ pc = "done"
    /\ Len(indicators) = 2
    /\ BothZero(result.first.scores)
    /\ Gt(result.first.scores["HOLD"], R(0))
    /\ result.first.direction = "HOLD"
    /\ Len(result.first.individual_signals) = 2

\* C9: HOLD signals are listed in individual_signals and summed into
\* scores['HOLD'], and never affect the vote: two inputs with the same BUY
\* and SELL signals that differ only in their HOLD signals have the same
\* combined direction and confidence.
C9_HoldNeverVotes ==
    pc = "done" =>
        /\ \A call \in Calls :
               /\ Len(call.out.individual_signals) = Len(call.names)
               /\ call.out.scores["HOLD"] = StatedScore(call, "HOLD")
        /\ (Voting(result.first.individual_signals)
                = Voting(result.second.individual_signals)) =>
               /\ result.first.direction = result.second.direction
               /\ result.first.confidence = result.second.confidence

\* two inputs with the same voters that differ in the number of HOLD
\* signals and in the HOLD score, and are both combined to BUY
C9_Witness ==
    /\ pc = "done"
    /\ Len(indicators) # Len(other_indicators)
    /\ result.first.scores["HOLD"] # result.second.scores["HOLD"]
    /\ Gt(result.first.scores["HOLD"], R(0))
    /\ Gt(result.second.scores["HOLD"], R(0))
    /\ result.first.direction = "BUY"
    /\ result.second.direction = "BUY"

\* C10: the weight of an indicator's vote is INDICATOR_WEIGHTS[name] x
\* TIMESCALE_ADJUSTMENTS[bucket][category], with bucket 'short' for
\* horizon <= 3, 'medium' for 4..10 and 'long' above 10; a trend indicator
\* weighs more in the long bucket than in the short one, a momentum
\* indicator more in the short bucket than in the long one.
C10_AdjustedWeight ==
    /\ pc = "done" =>
           \A call \in Calls : \A d \in Directions :
               call.out.scores[d] = StatedScore(call, d)
    /\ \A name \in IndicatorNames :
           /\ _get_adjusted_weight(name, horizon_days)
                  = StatedWeight(name, horizon_days)
           /\ INDICATOR_CATEGORIES[name] = "trend" =>
                  Gt(_get_adjusted_weight(name, 11), _get_adjusted_weight(name, 3))
           /\ INDICATOR_CATEGORIES[name] = "momentum" =>
                  Gt(_get_adjusted_weight(name, 3), _get_adjusted_weight(name, 11))

\* RSI alone at horizon 3, the last of the short bucket: its vote of
\* confidence 1/6 scores 1/6 x 1.1 x 1.4
C10_Witness ==
    /\ pc = "done"
    /\ indicators = <<"RSI">>
    /\ horizon_days = 3
    /\ result.first.individual_signals[1].confidence = <<1, 6>>
    /\ result.first.scores["BUY"] = Mul(<<1, 6>>, Mul(<<11, 10>>, <<7, 5>>))

(***************************************************************************)
(* Properties of SignalResult, under SignalSpec.                           *)
(***************************************************************************)
\* C11: every SignalResult has 0 <= confidence <= 1: construction takes a
\* supplied confidence below 0 to 0 and one above 1 to 1 and keeps one in
\* between, and every signal get_signal returns, whatever the readings, has
\* a confidence in [0, 1] (and no call raises).
C11_ConfidenceBound ==
    pc = "done" =>
        /\ result.signal.direction \in Directions
        /\ Ge(result.signal.confidence, R(0))
        /\ Le(result.signal.confidence, R(1))
        /\ result.fn = "SignalResult" =>
               /\ Lt(result.supplied, R(0)) => result.signal.confidence = R(0)
               /\ Gt(result.supplied, R(1)) => result.signal.confidence = R(1)
               /\ (Ge(result.supplied, R(0)) /\ Le(result.supplied, R(1))) =>
                      result.signal.confidence = result.supplied

\* SMA Crossover on a negative long average: the rule's own confidence,
\* min(0.4, spread * 10), is negative, and the signal has confidence 0
C11_Witness ==
    /\ pc = "done"
    /\ result.fn = "get_signal"
    /\ indicators = <<"SMA Crossover">>
    /\ Lt(iloc(df["SMA_long"], idx), R(0))
    /\ Gt(iloc(df["SMA_short"], idx), R(0))
    /\ result.signal.direction = "BUY"
    /\ result.signal.confidence = R(0)

(***************************************************************************)
(* Properties of compute_metrics, under MetricsSpec.                       *)
(***************************************************************************)
\* the equity curve the report should hold: the capital, then each value
\* the one before times (1 + pnl_pct of the trade)
CurveIsCompounded(rep) ==
    /\ Len(rep.equity_curve.values) = Len(rep.trades) + 1
    /\ rep.equity_curve.values[1] = rep.initial_capital
    /\ \A k \in 1..Len(rep.trades) :
           rep.equity_curve.values[k + 1] =
               Mul(rep.equity_curve.values[k], Add(R(1), rep.trades[k].pnl_pct))
    /\ Len(rep.equity_curve.index) = Len(rep.trades) + 1
    /\ rep.equity_curve.index[1] = rep.trades[1].entry_date
    /\ \A k \in 1..Len(rep.trades) :
           rep.equity_curve.index[k + 1] = rep.trades[k].exit_date

\* C12 as stated: for every report finalized by compute_metrics,
\* len(equity_curve) = len(trades) + 1.  Not so for a report without
\* trades, whose curve stays empty.
C12_CurveLengthOfEveryReport ==
    pc = "done" =>
        Len(report.equity_curve.values) = Len(report.trades) + 1

\* C12, amended: for every report with at least one trade finalized by
\* compute_metrics, len(equity_curve) = len(trades) + 1, the first value is
\* initial_capital, value k is value k-1 times (1 + pnl_pct of trade k),
\* and the index is the first entry_date followed by each exit_date.
C12_EquityCurve ==
    (pc = "done" /\ Len(report.trades) >= 1) => CurveIsCompounded(report)

\* a finalized report of two trades, +0.02 then -0.01 on 10000: the curve
\* has three values
C12_Witness ==
    /\ pc = "done"
    /\ Len(report.trades) = 2
    /\ report.equity_curve.values = <<R(10000), R(10200), R(10098)>>
    /\ report.equity_curve.index = <<3, 5, 8>>

\* C13: compute_metrics on a report without trades leaves total_trades,
\* winning_trades, losing_trades, win_rate, cumulative_return,
\* max_drawdown, sharpe_ratio and profit_factor at zero and the equity
\* curve empty, and does not raise.
C13_NoTradesAllZero ==
    (pc = "done" /\ report.trades = <<>>) =>
        /\ report.total_trades = 0
        /\ report.winning_trades = 0
        /\ report.losing_trades = 0
        /\ report.win_rate = R(0)
        /\ report.cumulative_return = R(0)
        /\ report.max_drawdown = R(0)
        /\ report.sharpe_ratio = R(0)
        /\ report.profit_factor = R(0)
        /\ report.equity_curve.values = <<>>
        /\ report.equity_curve.index = <<>>

\* compute_metrics has returned a report without trades
C13_Witness ==
    /\ pc = "done"
    /\ result.fn = "compute_metrics"
    /\ report.trades = <<>>
    /\ report.total_trades = 0

\* the returns of the trades of a report
Returns(rep) == [k \in 1..Len(rep.trades) |-> rep.trades[k].pnl_pct]

\* the sum of the returns that are positive (sign = 1) or negative (-1)
SumOfSign(rep, sign) ==
    SumSeq([k \in 1..Len(rep.trades) |->
               IF Sign(rep.trades[k].pnl_pct[1]) = sign
               THEN rep.trades[k].pnl_pct ELSE R(0)])

\* C14: for a non-empty trade list, profit_factor is the sum of the
\* positive pnl_pct over the absolute sum of the negative pnl_pct when some
\* trade has a negative pnl_pct, and positive infinity when there are no
\* losing trades; it is never NaN.
C14_ProfitFactor ==
    (pc = "done" /\ Len(report.trades) >= 1) =>
        /\ ~IsNa(report.profit_factor)
        /\ (\E k \in 1..Len(report.trades) :
                Lt(report.trades[k].pnl_pct, R(0))) =>
               report.profit_factor =
                   Div(SumOfSign(report, 1), RAbs(SumOfSign(report, -1)))
        /\ (\A k \in 1..Len(report.trades) :
                ~Lt(report.trades[k].pnl_pct, R(0))) =>
               report.profit_factor = Inf
        /\ report.losing_trades = 0 => report.profit_factor = Inf

\* two winning trades and no losing one: the profit factor is +infinity
C14_Witness ==
    /\ pc = "done"
    /\ Len(report.trades) = 2
    /\ \A k \in 1..2 : Gt(report.trades[k].pnl_pct, R(0))
    /\ report.losing_trades = 0
    /\ report.profit_factor = Inf

\* C15: for a non-empty trade list, total_trades = len(trades),
\* winning_trades = the number of trades with correct = true,
\* losing_trades = total_trades - winning_trades and
\* win_rate = winning_trades / total_trades, so 0 <= win_rate <= 1.
C15_WinRate ==
    (pc = "done" /\ Len(report.trades) >= 1) =>
        /\ report.total_trades = Len(report.trades)
        /\ report.winning_trades =
               Cardinality({k \in 1..Len(report.trades) : report.trades[k].correct})
        /\ report.losing_trades = report.total_trades - report.winning_trades
        /\ report.winning_trades + report.losing_trades = report.total_trades
        /\ Mul(report.win_rate, R(report.total_trades)) = R(report.winning_trades)
        /\ Ge(report.win_rate, R(0))
        /\ Le(report.win_rate, R(1))

\* three trades, one of them a right prediction on a flat price: one win
\* in three
C15_Witness ==
    /\ pc = "done"
    /\ Len(report.trades) = 3
    /\ \E k \in 1..3 : report.trades[k].correct
                          /\ report.trades[k].pnl_pct = R(0)
    /\ report.winning_trades = 1
    /\ report.losing_trades = 2
    /\ report.win_rate = <<1, 3>>

RECURSIVE Growth(_, _)
\* the product of (1 + pnl_pct) over the first k trades
Growth(trades, k) ==
    IF k = 0 THEN R(1)
    ELSE Mul(Growth(trades, k - 1), Add(R(1), trades[k].pnl_pct))

\* C16: for a non-empty trade list, cumulative_return is
\* equity[-1] / equity[0] - 1, which is the product over the trades of
\* (1 + pnl_pct) minus 1 and does not depend on initial_capital.
C16_CumulativeReturn ==
    (pc = "done" /\ Len(report.trades) >= 1) =>
        /\ report.cumulative_return =
               Sub(Div(report.equity_curve.values[Len(report.trades) + 1],
                       report.equity_curve.values[1]), R(1))
        /\ report.cumulative_return =
               Sub(Growth(report.trades, Len(report.trades)), R(1))
        /\ result.other.cumulative_return = report.cumulative_return

\* pnl_pct +0.02 then -0.01 on a capital of 10000: the curve is
\* [10000, 10200, 10098] and the cumulative return 0.0098, as it is for
\* the capital 1
C16_Witness ==
    /\ pc = "done"
    /\ initial_capital = R(10000)
    /\ result.capital = R(1)
    /\ Returns(report) = <<<<1, 50>>, <<-1, 100>>>>
    /\ report.equity_curve.values = <<R(10000), R(10200), R(10098)>>
    /\ report.cumulative_return = <<49, 5000>>
    /\ result.other.cumulative_return = <<49, 5000>>

\* (running_peak - value) / running_peak at position k of a curve
DrawdownAt(values, k) ==
    Div(Sub(SeqMax(SubSeq(values, 1, k)), values[k]),
        SeqMax(SubSeq(values, 1, k)))

\* C17: for a non-empty trade list, max_drawdown is the maximum over the
\* positions of the equity curve of (running_peak - value) / running_peak,
\* the running peak being the largest value at or before the position; it
\* is 0 when the curve never falls below an earlier value.
C17_MaxDrawdown ==
    (pc = "done" /\ Len(report.trades) >= 1) =>
        LET values == report.equity_curve.values
        IN  /\ \A k \in 1..Len(values) :
                   Ge(report.max_drawdown, DrawdownAt(values, k))
            /\ \E k \in 1..Len(values) :
                   report.max_drawdown = DrawdownAt(values, k)
            /\ (\A j, k \in 1..Len(values) :
                    j < k => Ge(values[k], values[j])) =>
                   report.max_drawdown = R(0)

\* a curve that rises to a peak above the capital and then falls: the
\* drawdown is measured from that peak
C17_Witness ==
    /\ pc = "done"
    /\ initial_capital = R(10000)
    /\ Returns(report) = <<<<1, 2>>, <<-1, 100>>>>
    /\ report.equity_curve.values = <<R(10000), R(15000), R(14850)>>
    /\ report.max_drawdown = <<1, 100>>

(***************************************************************************)
(* Properties of the frames as objects, under FrameSpec.                   *)
(***************************************************************************)
\* C19: the caller's series is never mutated: after compute, after
\* combine_signals with precomputed True or False (also when get_signal
\* computes missing columns on demand) and after run_backtest, the frame
\* that was passed in has the columns and the values it had before.
C19_InputNotMutated ==
    pc = "done" =>
        /\ DOMAIN result.heap[1] = DOMAIN df
        /\ result.heap[1] = df

\* combine_signals with precomputed = True on a frame without the
\* indicator's columns: get_signal computed them on a copy, and the
\* caller's frame still has none of them
C19_Witness ==
    /\ pc = "done"
    /\ result.fn = "combine_signals"
    /\ result.precomputed
    /\ ~HasColumn(df, GuardColumn(indicators[1]))
    /\ Len(result.heap) > 1
    /\ HasColumn(result.heap[Len(result.heap)], GuardColumn(indicators[Len(indicators)]))
    /\ result.heap[1] = df

(***************************************************************************)
(* The registry.  Importing an indicator module runs the @register         *)
(* decorator of each of its classes, in the order of the file; a lookup    *)
(* is get_indicator(name) for a registered name, a class name, a name in   *)
(* another case, the empty string or an unknown name.  result carries the  *)
(* last call: its outcome, the number of indicator objects constructed so  *)
(* far and the number of lookups made.                                     *)
(***************************************************************************)
MaxLookups == 2

Modules == {"trend", "momentum", "volatility", "volume"}

\* the decorated classes of a module, in the order of the file
ModuleClasses(module) ==
    CASE module = "trend"      -> <<"SMACrossover", "EMACrossover", "MACD", "ADX">>
      [] module = "momentum"   -> <<"RSI", "Stochastic">>
      [] module = "volatility" -> <<"BollingerBands">>
      [] module = "volume"     -> <<"VWAP", "OBV">>

RECURSIVE RegisterAll(_, _, _)
RegisterAll(registry, classes, k) ==
    IF k > Len(classes) THEN registry
    ELSE RegisterAll(register(registry, classes[k]), classes, k + 1)

LookupNames ==
    IndicatorNames \cup {"SMACrossover", "rsi", "", "Unknown"}

RegistryInit ==
    /\ _registry = EmptyRegistry
    /\ result = [fn |-> "none", name |-> "", raised |-> "none",
                 instance |-> "none", allocated |-> 0, lookups |-> 0]
    /\ initial_capital = R(10000)
    /\ horizon_days = 1
    /\ report = BacktestReport("TICK", "6mo", horizon_days, initial_capital)
    /\ indicators = <<"VWAP">>
    /\ df = MakeFrame(<<BaseBar, BaseBar>>)
    /\ other_df = df
    /\ other_indicators = indicators
    /\ computed_df = df
    /\ idx = -1
    /\ t = 0
    /\ pc = "registry"

\* import of an indicator module: register(cls) for each decorated class
ImportModule ==
    /\ pc = "registry"
    /\ \E module \in Modules :
          /\ NameOf(ModuleClasses(module)[1]) \notin DOMAIN _registry
          /\ _registry' = RegisterAll(_registry, ModuleClasses(module), 1)
          /\ result' = [result EXCEPT
                 !.fn = "register",
                 !.allocated = @ + Len(ModuleClasses(module))]
    /\ UNCHANGED <<df, indicators, horizon_days, initial_capital, computed_df,
                   t, report, pc, idx, other_df, other_indicators>>

\* get_indicator(name)
GetIndicatorCall ==
    /\ pc = "registry"
    /\ result.lookups < MaxLookups
    /\ \E name \in LookupNames :
          LET r == get_indicator(_registry, name, result.allocated)
          IN  /\ _registry' = r.registry
              /\ result' = [fn        |-> "get_indicator",
                            name      |-> name,
                            raised    |-> r.raised,
                            instance  |-> r.instance,
                            allocated |-> IF r.raised = "none"
                                          THEN result.allocated + 1
                                          ELSE result.allocated,
                            lookups   |-> result.lookups + 1]
    /\ UNCHANGED <<df, indicators, horizon_days, initial_capital, computed_df,
                   t, report, pc, idx, other_df, other_indicators>>

RegistryNext == ImportModule \/ GetIndicatorCall

RegistrySpec == RegistryInit /\ [][RegistryNext]_vars

(***************************************************************************)
(* Properties of the registry, under RegistrySpec.                         *)
(***************************************************************************)
\* C20: get_indicator(name) raises KeyError exactly when name is not a
\* registered indicator name, and then leaves the registry unchanged; for a
\* registered name it returns a new instance whose name property equals the
\* requested name.
C20_GetIndicator ==
    [][result'.lookups = result.lookups + 1 =>
        /\ result'.raised \in {"KeyError", "none"}
        /\ (result'.raised = "KeyError") <=> (result'.name \notin DOMAIN _registry)
        /\ result'.raised = "KeyError" => _registry' = _registry
        /\ result'.raised = "none" =>
              /\ result'.instance.name = result'.name
              /\ result'.instance.class = _registry[result'.name]
              /\ result'.instance.id \notin 1..result.allocated]_vars

\* a lookup by class name after trend.py was imported: the class is
\* registered under "SMA Crossover", so "SMACrossover" raises KeyError and
\* the registry still holds the four trend indicators
C20_Witness ==
    /\ result.fn = "get_indicator"
    /\ result.name = "SMACrossover"
    /\ result.raised = "KeyError"
    /\ DOMAIN _registry = {"SMA Crossover", "EMA Crossover", "MACD", "ADX"}
    /\ _registry["SMA Crossover"] = "SMACrossover"
    /\ result.allocated = 5
    /\ result.lookups = 2

(***************************************************************************)
(* Properties of the scan loop of run_backtest, under Spec.                *)
(***************************************************************************)
\* C21: a trade appended to report.trades is immutable: every step of
\* run_backtest, the call of compute_metrics included, keeps the trades
\* already in the list, field by field and in their order; the list only
\* grows by one trade appended at the end, entered later than the last one.
C21_TradesAppendOnly ==
    [][LET old == report.trades
           new == report'.trades
       IN  /\ Len(new) \in {Len(old), Len(old) + 1}
           /\ SubSeq(new, 1, Len(old)) = old
           /\ (Len(new) = Len(old) + 1 /\ Len(old) > 0) =>
                 new[Len(new)].entry_date > old[Len(old)].entry_date
           /\ pc' = "done" => new = old]_vars

\* a finished backtest with two trades: the metrics were computed from
\* them and they are still the trades the scan appended, in entry order
C21_Witness ==
    /\ pc = "done"
    /\ Len(report.trades) = 2
    /\ report.total_trades = 2
    /\ Len(report.equity_curve.values) = 3
    /\ report.trades[1].entry_date < report.trades[2].entry_date
    /\ report.trades[1].entry_date = Calendar(Warmup(indicators))

\* C22: the scan loop terminates: while the scan goes on t strictly
\* increases on every iteration, by 1 or by horizon_days, and stays below
\* the end of the series; the call always reaches its return; the step
\* that leaves the loop is taken at t >= len(series) - horizon_days and is
\* the one that computes the metrics; nothing happens after the return, so
\* the metrics of a scanned series are computed exactly once.
C22_ScanTerminates ==
    /\ <>(pc = "done")
    /\ [][/\ (pc = "scan" /\ pc' = "scan") =>
                /\ t < FrameLen(computed_df) - horizon_days
                /\ t' > t
                /\ t' \in {t + 1, t + horizon_days}
          /\ (pc = "scan" /\ pc' = "done") =>
                /\ t >= FrameLen(computed_df) - horizon_days
                /\ t' = t
                /\ report' = compute_metrics(report)
          /\ pc = "done" => pc' = "done" /\ report' = report /\ t' = t]_vars

\* a call that scanned past the warm-up, appended a trade, stepped over a
\* HOLD bar as well, and returned with the metrics computed
C22_Witness ==
    /\ pc = "done"
    /\ horizon_days = 2
    /\ t >= FrameLen(computed_df) - horizon_days
    /\ t > Warmup(indicators) + 2
    /\ Len(report.trades) = 1
    /\ report.total_trades = 1

\* C23: each iteration of the scan at index t does exactly one of two
\* things: on HOLD no trade is appended and the next index is t + 1; on BUY
\* or SELL exactly one trade, entered at t, is appended and the next index
\* is t + horizon_days.  So the index the scan is at is never strictly
\* between the entry and the exit of a trade.
C23_HoldOrTrade ==
    /\ [][(pc = "scan" /\ pc' = "scan") =>
            LET direction == SignalAt(t).direction
                old       == report.trades
                new       == report'.trades
            IN  \/ /\ direction = "HOLD"
                   /\ new = old
                   /\ t' = t + 1
                \/ /\ direction \in {"BUY", "SELL"}
                   /\ Len(new) = Len(old) + 1
                   /\ SubSeq(new, 1, Len(old)) = old
                   /\ new[Len(new)].entry_date = iloc(computed_df["Date"], t)
                   /\ new[Len(new)].predicted_direction = direction
                   /\ t' = t + horizon_days]_vars
    /\ [](pc = "scan" =>
            \A k \in 1..Len(report.trades) :
                ~ /\ report.trades[k].entry_date < Calendar(t)
                  /\ Calendar(t) < report.trades[k].exit_date)

\* the scan held at the first bar after the warm-up, opened a trade at the
\* next one and moved on by the horizon of two bars, to the trade's exit
C23_Witness ==
    /\ pc = "scan"
    /\ horizon_days = 2
    /\ Len(report.trades) = 1
    /\ report.trades[1].entry_date = Calendar(Warmup(indicators) + 1)
    /\ report.trades[1].exit_date = Calendar(t)
    /\ t = Warmup(indicators) + 3

\* C24: in every state of run_backtest each trade has an entry index e
\* with warmup <= e < len(series) - horizon_days, where warmup is the
\* largest indicator lookback plus 50, and its exit index is e + horizon_days,
\* at most len(series) - 1: its dates and prices are those of the bars e and
\* e + horizon_days of the series; and the combiner is never evaluated at an
\* index below warmup.
C24_IndicesInRange ==
    LET warmup == MaxLookback(indicators) + 50
        n      == FrameLen(df)
    IN  /\ pc = "scan" => t >= warmup
        /\ \A k \in 1..Len(report.trades) :
              \E e \in warmup..(n - horizon_days - 1) :
                  /\ e + horizon_days <= n - 1
                  /\ report.trades[k].entry_date = df["Date"][e + 1]
                  /\ report.trades[k].exit_date = df["Date"][e + horizon_days + 1]
                  /\ report.trades[k].entry_price = df["Close"][e + 1]
                  /\ report.trades[k].exit_price = df["Close"][e + horizon_days + 1]

\* a trade entered at the last index the scan may evaluate, len - horizon - 1,
\* and closed on the last bar of the series
C24_Witness ==
    /\ pc = "done"
    /\ horizon_days = 2
    /\ Len(report.trades) >= 1
    /\ report.trades[Len(report.trades)].entry_date = Calendar(FrameLen(df) - 3)
    /\ report.trades[Len(report.trades)].exit_date = Calendar(FrameLen(df) - 1)
    /\ report.trades[1].entry_date = Calendar(MaxLookback(indicators) + 50)

(***************************************************************************)
(* Properties of get_signal on given readings, under SignalSpec.           *)
(***************************************************************************)
\* C25: RSI.get_signal on a defined RSI value r (between 0 and 100):
\* r < 30 gives BUY with confidence (30 - r)/30, r > 70 gives SELL with
\* confidence (r - 70)/30, 30 <= r < 45 gives SELL with confidence 0.15,
\* 55 < r <= 70 gives BUY with confidence 0.15, 45 <= r <= 55 gives HOLD
\* with confidence 0; 30 and 70 are in the weak-bias branches.
C25_RSIZones ==
    (pc = "done" /\ result.fn = "get_signal" /\ indicators = <<"RSI">>) =>
        LET r   == iloc(df["RSI"], idx)
            sig == result.signal
        IN  (~IsNa(r) /\ Ge(r, R(0)) /\ Le(r, R(100))) =>
                /\ Lt(r, R(30)) =>
                      /\ sig.direction = "BUY"
                      /\ sig.confidence = Div(Sub(R(30), r), R(30))
                /\ Gt(r, R(70)) =>
                      /\ sig.direction = "SELL"
                      /\ sig.confidence = Div(Sub(r, R(70)), R(30))
                /\ (Ge(r, R(30)) /\ Lt(r, R(45))) =>
                      /\ sig.direction = "SELL"
                      /\ sig.confidence = <<3, 20>>
                /\ (Gt(r, R(55)) /\ Le(r, R(70))) =>
                      /\ sig.direction = "BUY"
                      /\ sig.confidence = <<3, 20>>
                /\ (Ge(r, R(45)) /\ Le(r, R(55))) =>
                      /\ sig.direction = "HOLD"
                      /\ sig.confidence = R(0)

\* the boundary reading 30: not oversold, a weak SELL
C25_Witness ==
    /\ pc = "done"
    /\ result.fn = "get_signal"
    /\ indicators = <<"RSI">>
    /\ iloc(df["RSI"], idx) = R(30)
    /\ result.signal.direction = "SELL"
    /\ result.signal.confidence = <<3, 20>>

\* two bars without volume: the cumulative volume is zero
ZeroVolumeFrame == MakeFrame(<<Bar(5, 3, 4, 0), Bar(6, 4, 5, 0)>>)

\* the signal is well formed: no exception, a direction, and a confidence
\* that is a defined number in [0, 1]
WellFormed(sig) ==
    /\ sig.direction \in Directions
    /\ ~IsNa(sig.confidence)
    /\ Ge(sig.confidence, R(0))
    /\ Le(sig.confidence, R(1))

\* C26: degenerate denominators neither raise nor give an undefined
\* confidence: VWAP.get_signal on an undefined VWAP (zero cumulative
\* volume) or a VWAP of 0 returns HOLD with confidence 0;
\* BollingerBands.get_signal with upper band = lower band returns a
\* well-formed signal; OBV.get_signal with a zero OBV range over the
\* trailing window takes the range as 1 and returns a well-formed signal.
C26_DegenerateDenominators ==
    (pc = "done" /\ result.fn = "get_signal") =>
        LET sig == result.signal
        IN  /\ indicators = <<"VWAP">> =>
                  /\ (IsNa(iloc(df["VWAP"], idx)) \/ iloc(df["VWAP"], idx) = R(0)) =>
                        sig.direction = "HOLD" /\ sig.confidence = R(0)
                  /\ \A i \in 1..2 : IsNa(VWAP_compute(ZeroVolumeFrame)["VWAP"][i])
                  /\ VWAP_get_signal(ZeroVolumeFrame, -1).direction = "HOLD"
                  /\ VWAP_get_signal(ZeroVolumeFrame, -1).confidence = R(0)
            /\ (/\ indicators = <<"Bollinger Bands">>
                /\ ~IsNa(iloc(df["BB_upper"], idx))
                /\ iloc(df["BB_upper"], idx) = iloc(df["BB_lower"], idx)) =>
                  WellFormed(sig)
            /\ (/\ indicators = <<"OBV">>
                /\ ~IsNa(SeriesMax(df["OBV"]))
                /\ SeriesMax(df["OBV"]) = SeriesMin(df["OBV"])) =>
                  /\ OBV_range(df, idx - 2) = R(1)
                  /\ WellFormed(sig)

\* Bollinger Bands of zero width with the close on them: the guarded
\* confidence 0.5 is used
C26_Witness ==
    /\ pc = "done"
    /\ result.fn = "get_signal"
    /\ indicators = <<"Bollinger Bands">>
    /\ iloc(df["BB_upper"], idx) = R(25)
    /\ iloc(df["BB_lower"], idx) = R(25)
    /\ iloc(df["Close"], idx) = R(25)
    /\ iloc(df["BB_pband"], idx) = R(0)
    /\ result.signal.direction = "BUY"
    /\ result.signal.confidence = <<1, 2>>

(***************************************************************************)
(* A further property of combine_signals, under CombinerSpec.              *)
(***************************************************************************)
\* C27: every CombinedSignal returned by combine_signals is either HOLD
\* with confidence exactly 0, or BUY or SELL with a confidence in
\* [0.55, 1]: no actionable decision has a confidence below 0.55.
C27_ActionableConfidence ==
    pc = "done" =>
        \A combined \in {result.first, result.second} :
            \/ combined.direction = "HOLD" /\ combined.confidence = R(0)
            \/ /\ combined.direction \in {"BUY", "SELL"}
               /\ Ge(combined.confidence, <<11, 20>>)
               /\ Le(combined.confidence, R(1))

\* opposed votes: BUY at 0.35 against SELL at 0.28 is a margin of 1/9, just
\* above the threshold, and BUY wins with confidence 5/9
C27_Witness ==
    /\ pc = "done"
    /\ result.first.direction = "BUY"
    /\ result.first.scores["BUY"] = <<7, 20>>
    /\ result.first.scores["SELL"] = <<7, 25>>
    /\ result.first.confidence = <<5, 9>>

(***************************************************************************)
(* Further properties of the trades and the report of run_backtest, under  *)
(* Spec (every close of the series is strictly positive).                  *)
(***************************************************************************)
\* the number of trades of the report whose pnl_pct has the given sign
CountBySign(rep, sign) ==
    Cardinality({k \in 1..Len(rep.trades) :
                    Sign(rep.trades[k].pnl_pct[1]) = sign})

\* C28: for every trade, correct implies pnl_pct >= 0 and not correct
\* implies pnl_pct <= 0; a trade with pnl_pct = 0 is correct exactly when
\* the prediction was SELL.  So in the finished report winning_trades is at
\* least the number of trades with pnl_pct > 0 and losing_trades at least
\* the number with pnl_pct < 0, and both can be larger.
C28_CorrectVersusPnl ==
    /\ \A k \in 1..Len(report.trades) :
          LET trade == report.trades[k]
          IN  /\ trade.correct => Ge(trade.pnl_pct, R(0))
              /\ ~trade.correct => Le(trade.pnl_pct, R(0))
              /\ trade.pnl_pct = R(0) =>
                    (trade.correct <=> trade.predicted_direction = "SELL")
    /\ (pc = "done" /\ Len(report.trades) > 0) =>
          /\ report.winning_trades >= CountBySign(report, 1)
          /\ report.losing_trades >= CountBySign(report, -1)
          /\ report.winning_trades - CountBySign(report, 1) =
                Cardinality({k \in 1..Len(report.trades) :
                    /\ report.trades[k].pnl_pct = R(0)
                    /\ report.trades[k].predicted_direction = "SELL"})

\* a finished report with a SELL on an unchanged price: counted as a win
\* though its pnl_pct is 0
C28_Witness ==
    /\ pc = "done"
    /\ \E k \in 1..Len(report.trades) :
          /\ report.trades[k].predicted_direction = "SELL"
          /\ report.trades[k].pnl_pct = R(0)
          /\ report.trades[k].correct
    /\ report.winning_trades > CountBySign(report, 1)

\* a finished report with a BUY on an unchanged price: counted as a loss
\* though its pnl_pct is 0
C28_FlatBuyIsLoss ==
    /\ pc = "done"
    /\ \E k \in 1..Len(report.trades) :
          /\ report.trades[k].predicted_direction = "BUY"
          /\ report.trades[k].pnl_pct = R(0)
          /\ ~report.trades[k].correct
    /\ report.losing_trades > CountBySign(report, -1)

\* C29: for every trade list run_backtest produces on a series with
\* strictly positive closes and a positive initial capital, every value of
\* the equity curve is strictly positive and max_drawdown lies in [0, 1]
\* (every pnl_pct would have to be above -1).
C29_EquityStaysPositive ==
    pc = "done" =>
        /\ \A k \in 1..Len(report.equity_curve.values) :
              Gt(report.equity_curve.values[k], R(0))
        /\ Ge(report.max_drawdown, R(0))
        /\ Le(report.max_drawdown, R(1))
        /\ \A k \in 1..Len(report.trades) : Gt(report.trades[k].pnl_pct, R(-1))

(***************************************************************************)
(* A further property of get_signal on computed series, under              *)
(* IndicatorSpec.                                                          *)
(***************************************************************************)
\* C30: on a computed series of length n >= 2, get_signal at the default
\* index -1 returns the same direction and confidence as get_signal at the
\* explicit last position n - 1, for every indicator, and combine_signals
\* gives the same CombinedSignal for idx = -1 and idx = n - 1.
C30_DefaultIndexIsLast ==
    (pc = "done" /\ FrameLen(df) >= 2 /\ idx = FrameLen(df) - 1) =>
        /\ result.last.direction = result.first.direction
        /\ result.last.confidence = result.first.confidence
        /\ result.last.direction # "RAISED"
        /\ result.combined_last = result.combined

\* the SMA crossover on 52 bars whose last bar falls: the short average
\* crosses below the long one between the bars 50 and 51, read as the
\* previous and the current bar at either index
C30_Witness ==
    /\ pc = "done"
    /\ indicators = <<"SMA Crossover">>
    /\ FrameLen(df) = 52
    /\ idx = 51
    /\ result.first.direction = "SELL"
    /\ result.last = result.first
    /\ result.combined_last.direction = "SELL"

====
